---- MODULE Spec2Model ----
(***************************************************************************)
(* The BFS cpu scheduler of kernel/sched_bfs.c as a state machine.         *)
(*                                                                         *)
(* Every handler that runs under grq.lock is one atomic action.  The       *)
(* handlers are written as the C code is: a sequence of helper calls, each *)
(* helper an operator from a "world" record w = [grq, task, rq] to the     *)
(* world after the call.                                                   *)
(*                                                                         *)
(* sched_clock_cpu() is an external per-cpu clock that may jump, so every  *)
(* raw clock difference a handler computes is an input of that handler.    *)
(***************************************************************************)
EXTENDS Integers, Sequences, FiniteSets, TLC

VARIABLES grq, task, rq, cpu_online_map, budget, last, call, locks, completion

vars == <<grq, task, rq, cpu_online_map, budget, last, call, locks, completion>>

(***************************************************************************)
(* Bounds of the model.                                                    *)
(***************************************************************************)
NCPU == 2          \* cpus of the machine
NTASK == 3         \* task_structs besides the per-cpu idle tasks
NiffySteps == 1    \* jiffies that grq.niffies may advance in one run
MaxTicks == 2      \* ticks taken and jiffies of run time accounted in one run
MaxForks == 1      \* forks in one run
MaxAdmin == 1      \* policy, nice, pi, affinity changes and cpu removals in one run
MaxUnplug == 2     \* affinity changes and cpu removals in one run of the hotplug specification
MaxCalls == 1      \* calls whose arguments and return value are kept in one run
MaxSleeps == 1     \* tasks put to sleep in one run of the dispatch specification

CPUs == 0 .. (NCPU - 1)
IdleTasks == 0 .. (NCPU - 1)
UserTasks == NCPU .. (NCPU + NTASK - 1)
Tasks == IdleTasks \cup UserTasks
NoTask == 0 - 1
\* rq->idle of a cpu
idle_of(cpu) == cpu

(***************************************************************************)
(* Constants of the program.                                               *)
(***************************************************************************)
HZ == 200
MAX_USER_RT_PRIO == 100
MAX_RT_PRIO == MAX_USER_RT_PRIO + 1
PRIO_RANGE == 40
MAX_PRIO == MAX_RT_PRIO + PRIO_RANGE
ISO_PRIO == MAX_RT_PRIO
NORMAL_PRIO == MAX_RT_PRIO + 1
IDLE_PRIO == MAX_RT_PRIO + 2
PRIO_LIMIT == IDLE_PRIO + 1
Bands == 0 .. (PRIO_LIMIT - 1)

RESCHED_US == 100
rr_interval == 6
sched_iso_cpu == 25

SCHED_NORMAL == "SCHED_NORMAL"
SCHED_FIFO == "SCHED_FIFO"
SCHED_RR == "SCHED_RR"
SCHED_BATCH == "SCHED_BATCH"
SCHED_ISO == "SCHED_ISO"
SCHED_IDLEPRIO == "SCHED_IDLEPRIO"
Policies == {SCHED_NORMAL, SCHED_FIFO, SCHED_RR, SCHED_BATCH, SCHED_ISO, SCHED_IDLEPRIO}

TASK_RUNNING == "TASK_RUNNING"
TASK_INTERRUPTIBLE == "TASK_INTERRUPTIBLE"
TASK_UNINTERRUPTIBLE == "TASK_UNINTERRUPTIBLE"
TASK_DEAD == "TASK_DEAD"
\* a wake mask is the set of states whose bit it has; TASK_RUNNING is 0, in no mask
TASK_NORMAL == {TASK_INTERRUPTIBLE, TASK_UNINTERRUPTIBLE}
TASK_ALL == {TASK_INTERRUPTIBLE, TASK_UNINTERRUPTIBLE}

rt_prio(prio) == prio < MAX_RT_PRIO
is_rt_policy(policy) == policy \in {SCHED_FIFO, SCHED_RR}
NICE_TO_PRIO(nice) == MAX_RT_PRIO + nice + 20
PRIO_TO_NICE(prio) == prio - MAX_RT_PRIO - 20
USER_PRIO(p) == p - MAX_RT_PRIO

JIFFIES_TO_NS(TIME) == TIME * (1000000000 \div HZ)
JIFFY_NS == 1000000000 \div HZ
HALF_JIFFY_NS == (1000000000 \div HZ) \div 2
HALF_JIFFY_US == (1000000 \div HZ) \div 2
MS_TO_NS(TIME) == TIME * 1048576
MS_TO_US(TIME) == TIME * 1024
US_TO_NS(TIME) == TIME \div 1024
NS_TO_US(TIME) == TIME \div 1024

timeslice == MS_TO_US(rr_interval)

RECURSIVE prio_ratios(_)
prio_ratios(i) == IF i = 0 THEN 128 ELSE (prio_ratios(i - 1) * 11) \div 10

prio_deadline_diff(user_prio) == prio_ratios(user_prio) * rr_interval * (MS_TO_NS(1) \div 128)
static_deadline_diff(static_prio) == prio_deadline_diff(USER_PRIO(static_prio))

\* the other cpu of the package is on the same node, in no shared cache domain
OtherCpuLocality == 3
\* rq->cpu_locality[] of cpu a as sched_init_smp() leaves it for cpus of one node
rq_cpu_locality(a) == [b \in 0 .. (NCPU - 1) |-> IF a = b THEN 0 ELSE OtherCpuLocality]
cpu_locality(w, a, b) == w.rq[a].cpu_locality[b]

(***************************************************************************)
(* The clock.                                                              *)
(***************************************************************************)
niffy_diffNoClamp(niff_diff, jiff_diff) ==
    LET max_diff == JIFFIES_TO_NS(jiff_diff + 1)
    IN  IF niff_diff > max_diff THEN US_TO_NS(1) ELSE niff_diff

niffy_diff(niff_diff, jiff_diff) ==
    LET max_diff == JIFFIES_TO_NS(jiff_diff + 1)
    IN  IF niff_diff < 1 \/ niff_diff > max_diff THEN US_TO_NS(1) ELSE niff_diff

(***************************************************************************)
(* The world a handler works on: w.grq is struct global_rq, w.task the     *)
(* task_structs, w.rq the per-cpu struct rq, w.online cpu_online_map.      *)
(* rq->idle of cpu c is task c.                                            *)
(***************************************************************************)
World == [grq |-> grq, task |-> task, rq |-> rq, online |-> cpu_online_map]

Remove(seq, p) == SelectSeq(seq, LAMBDA x : x # p)
InSeq(seq, p) == \E i \in 1 .. Len(seq) : seq[i] = p
Min(S) == CHOOSE x \in S : \A y \in S : x <= y

\* stand-in for 2^64, above every deadline of the model: u64 subtraction wraps
U64Wrap == 2000000000
u64_sub(a, b) == IF a >= b THEN a - b ELSE a - b + U64Wrap

task_cpu(w, p) == w.task[p].cpu
task_running(w, p) == w.task[p].oncpu
task_queued(w, p) == \E b \in Bands : InSeq(w.grq.queue[b], p)
Queued(w) == {p \in Tasks : task_queued(w, p)}

rt_task(w, p) == rt_prio(w.task[p].prio)
idleprio_task(w, p) == w.task[p].policy = SCHED_IDLEPRIO
iso_task(w, p) == w.task[p].policy = SCHED_ISO
batch_task(w, p) == w.task[p].policy = SCHED_BATCH
has_rt_policy(w, p) == is_rt_policy(w.task[p].policy)
task_contributes_to_load(w, p) == w.task[p].state = TASK_UNINTERRUPTIBLE

deadline_before(deadline, time) == deadline < time
deadline_afterOrEqual(deadline, time) == deadline >= time

deadline_after(deadline, time) == deadline > time

\* list_del_init(&p->run_list): p leaves the list that holds it
list_del_init(queue, p) ==
    IF \E b \in Bands : InSeq(queue[b], p)
    THEN LET b == CHOOSE b \in Bands : InSeq(queue[b], p)
         IN  [queue EXCEPT ![b] = Remove(@, p)]
    ELSE queue

dequeue_taskNoClear(w, p) ==
    [w EXCEPT !.grq.queue = list_del_init(w.grq.queue, p)]

\* the band's first task is unlinked, whichever task was passed
dequeue_taskHead(w, p) ==
    LET pr == w.task[p].prio
        q == IF pr \in Bands /\ w.grq.queue[pr] # <<>>
             THEN [w.grq.queue EXCEPT ![pr] = Tail(@)] ELSE w.grq.queue
    IN  [w EXCEPT !.grq.queue = q,
                  !.grq.prio_bitmap = IF pr \in Bands /\ q[pr] = <<>> THEN @ \ {pr} ELSE @]

dequeue_task(w, p) ==
    LET q == list_del_init(w.grq.queue, p)
        pr == w.task[p].prio
    IN  [w EXCEPT !.grq.queue = q,
                  !.grq.prio_bitmap = IF pr \in Bands /\ q[pr] = <<>> THEN @ \ {pr} ELSE @]

\* sig: freezing(p), signal_pending(p) or PF_EXITING, as the handler finds them
idleprio_suitable(w, p, sig) == ~sig /\ ~task_contributes_to_load(w, p)

isoprio_suitable(w) == ~w.grq.iso_refractory

\* a SCHED_ISO task goes to its own band whether or not iso_refractory is set
enqueue_taskAnyIso(w, p, sig) ==
    LET pr == IF ~rt_task(w, p)
              THEN IF (idleprio_task(w, p) /\ idleprio_suitable(w, p, sig)) \/ iso_task(w, p)
                   THEN w.task[p].normal_prio
                   ELSE NORMAL_PRIO
              ELSE w.task[p].prio
    IN  [w EXCEPT !.task[p].prio = pr,
                  !.grq.prio_bitmap = @ \cup {pr},
                  !.grq.queue[pr] = Append(@, p)]

enqueue_task(w, p, sig) ==
    LET pr == IF ~rt_task(w, p)
              THEN IF (idleprio_task(w, p) /\ idleprio_suitable(w, p, sig))
                      \/ (iso_task(w, p) /\ isoprio_suitable(w))
                   THEN w.task[p].normal_prio
                   ELSE NORMAL_PRIO
              ELSE w.task[p].prio
    IN  [w EXCEPT !.task[p].prio = pr,
                  !.grq.prio_bitmap = @ \cup {pr},
                  !.grq.queue[pr] = Append(@, p)]

enqueue_task_head(w, p) ==
    LET pr == w.task[p].prio
    IN  [w EXCEPT !.grq.prio_bitmap = @ \cup {pr},
                  !.grq.queue[pr] = <<p>> \o @]

task_prio_ratio(w, p) == prio_ratios(USER_PRIO(w.task[p].static_prio))
task_timeslice(w, p) == (rr_interval * task_prio_ratio(w, p)) \div 128
task_deadline_diff(w, p) == prio_deadline_diff(USER_PRIO(w.task[p].static_prio))

inc_qnr(w) == [w EXCEPT !.grq.qnr = @ + 1]
dec_qnr(w) == [w EXCEPT !.grq.qnr = @ - 1]
queued_notrunning(w) == w.grq.qnr

set_cpuidle_map(w, cpu) ==
    [w EXCEPT !.grq.cpu_idle_map = @ \cup {cpu}, !.grq.idle_cpus = TRUE]

clear_cpuidle_map(w, cpu) ==
    [w EXCEPT !.grq.cpu_idle_map = @ \ {cpu},
              !.grq.idle_cpus = IF w.grq.cpu_idle_map \ {cpu} = {} THEN FALSE ELSE @]

suitable_idle_cpus(w, p) ==
    IF ~w.grq.idle_cpus THEN FALSE
    ELSE w.task[p].cpus_allowed \cap w.grq.cpu_idle_map # {}

\* the flag is never set
resched_taskNever(w, p) == w

resched_task(w, p) ==
    IF w.task[p].need_resched THEN w ELSE [w EXCEPT !.task[p].need_resched = TRUE]

set_tsk_need_resched(w, p) == [w EXCEPT !.task[p].need_resched = TRUE]

CPUIDLE_DIFF_CPU == 8
\* stand-in for ~0UL, above every ranking
NoRanking == 64
nr_cpu_ids == NCPU
\* stand-in for ~0UL, what an unsigned long 0 - 1 wraps to; as an int it is -1
ULongMax == 2147483647
ulong(x) == IF x < 0 THEN x + ULongMax + 1 ELSE x
cpu_int(n) == IF n = ULongMax THEN 0 - 1 ELSE n
\* the first cpu of mask above n; n arrives as an unsigned long and is taken as an int
next_cpu(n, mask) ==
    IF \E c \in mask : c > cpu_int(n) THEN Min({c \in mask : c > cpu_int(n)}) ELSE nr_cpu_ids

RECURSIVE best_idle_loop(_, _, _, _, _, _, _)
best_idle_loop(w, tmpmask, src, cpu_tmp0, iterate, best_cpu, best_ranking) ==
    LET n1 == next_cpu(cpu_tmp0, tmpmask)
        cpu_tmp == IF n1 >= nr_cpu_ids THEN next_cpu(ulong(0 - 1), tmpmask) ELSE n1
        ranking == IF cpu_locality(w, src, cpu_tmp) > 2 THEN CPUIDLE_DIFF_CPU ELSE 0
    IN  IF ranking < best_ranking
        THEN IF ranking = 0 \/ iterate - 1 <= 0 THEN cpu_tmp
             ELSE best_idle_loop(w, tmpmask, src, cpu_tmp, iterate - 1, cpu_tmp, ranking)
        ELSE IF iterate - 1 <= 0 THEN best_cpu
             ELSE best_idle_loop(w, tmpmask, src, cpu_tmp, iterate - 1, best_cpu, best_ranking)

\* the lowest cpu of the mask is taken, as for_each_cpu_mask would find it
resched_best_idleLowest(w, p) ==
    resched_task(w, w.rq[Min(w.task[p].cpus_allowed \cap w.grq.cpu_idle_map)].curr)

resched_best_idle(w, p) ==
    LET tmpmask == w.task[p].cpus_allowed \cap w.grq.cpu_idle_map
        best_cpu == best_idle_loop(w, tmpmask, task_cpu(w, p), ulong(task_cpu(w, p) - 1),
                                   Cardinality(tmpmask), task_cpu(w, p), NoRanking)
    IN  resched_task(w, w.rq[best_cpu].curr)

resched_suitable_idle(w, p) ==
    IF suitable_idle_cpus(w, p) THEN resched_best_idle(w, p) ELSE w

RECURSIVE Shl(_, _)
Shl(x, n) == IF n = 0 THEN x ELSE Shl(2 * x, n - 1)

cache_distance(w, task_rq, r, p) ==
    LET locality == cpu_locality(w, r, task_rq) - 2
    IN  IF locality > 0 THEN Shl(task_timeslice(w, p), locality) ELSE 0

normal_prio(w, p) ==
    IF has_rt_policy(w, p) THEN MAX_RT_PRIO - 1 - w.task[p].rt_priority
    ELSE IF idleprio_task(w, p) THEN IDLE_PRIO
    ELSE IF iso_task(w, p) THEN ISO_PRIO
    ELSE NORMAL_PRIO

\* effective_prio() stores normal_prio and returns the prio; the caller stores that
effective_prio(w, p) ==
    LET np == normal_prio(w, p)
    IN  [w EXCEPT !.task[p].normal_prio = np,
                  !.task[p].prio = IF ~rt_prio(w.task[p].prio) THEN np ELSE @]

\* raw: rq->clock - rq->old_clock - (grq.niffies - rq->last_niffy); jdiff: jiffies - grq.last_jiffy
update_clocks(w, raw, jdiff) ==
    [w EXCEPT !.grq.niffies = @ + niffy_diff(raw, jdiff)]

activate_idle_task(w, p) ==
    LET w1 == enqueue_task_head(w, p)
        w2 == [w1 EXCEPT !.grq.nr_running = @ + 1]
    IN  inc_qnr(w2)

activate_task(w, p, raw, jdiff, sig) ==
    LET w1 == update_clocks(w, raw, jdiff)
        w2 == effective_prio(w1, p)
        w3 == IF task_contributes_to_load(w2, p)
              THEN [w2 EXCEPT !.grq.nr_uninterruptible = @ - 1] ELSE w2
        w4 == enqueue_task(w3, p, sig)
        w5 == [w4 EXCEPT !.grq.nr_running = @ + 1]
    IN  inc_qnr(w5)

deactivate_taskNoDec(w, p) ==
    IF task_contributes_to_load(w, p)
    THEN [w EXCEPT !.grq.nr_uninterruptible = @ + 1] ELSE w

deactivate_task(w, p) ==
    LET w1 == IF task_contributes_to_load(w, p)
              THEN [w EXCEPT !.grq.nr_uninterruptible = @ + 1] ELSE w
    IN  [w1 EXCEPT !.grq.nr_running = @ - 1]

set_task_cpu(w, p, cpu) == [w EXCEPT !.task[p].cpu = cpu]

take_taskNoDec(w, r, p) == dequeue_task(set_task_cpu(w, p, r), p)

\* the task picked stays linked
take_taskNoDequeue(w, r, p) == dec_qnr(set_task_cpu(w, p, r))

take_task(w, r, p) == dec_qnr(dequeue_task(set_task_cpu(w, p, r), p))

\* the task is never put back on the queue
return_taskDrop(w, p, deactivate, sig) == deactivate_task(w, p)

return_task(w, p, deactivate, sig) ==
    IF deactivate THEN deactivate_task(w, p)
    ELSE enqueue_task(inc_qnr(w), p, sig)

\* the deadlines alone decide
can_preemptDeadline(w, p, prio, deadline, policy) ==
    deadline_before(w.task[p].deadline, deadline)

can_preempt(w, p, prio, deadline, policy) ==
    IF w.task[p].prio < prio THEN TRUE
    ELSE IF w.task[p].prio > prio THEN FALSE
    ELSE IF ~deadline_before(w.task[p].deadline, deadline) THEN FALSE
    ELSE TRUE

online_cpus(w, p) == w.online \cap w.task[p].cpus_allowed # {}
needs_other_cpuNever(w, p, cpu) == FALSE

needs_other_cpu(w, p, cpu) == cpu \notin w.task[p].cpus_allowed

\* the for_each_cpu_mask loop of try_preempt from cpu up: <<latest_deadline, highest_prio, highest_prio_rq>>
RECURSIVE preempt_scan(_, _, _, _, _, _)
preempt_scan(w, p, this_rq, tmp, cpu, acc) ==
    IF cpu >= NCPU THEN acc
    ELSE IF cpu \notin tmp \/ w.rq[cpu].rq_prio < acc[2]
         THEN preempt_scan(w, p, this_rq, tmp, cpu + 1, acc)
    ELSE LET offset_deadline == u64_sub(w.rq[cpu].rq_deadline, cache_distance(w, this_rq, cpu, p))
         IN  IF w.rq[cpu].rq_prio > acc[2]
                \/ (w.rq[cpu].rq_prio = acc[2] /\ deadline_after(offset_deadline, acc[1]))
             THEN preempt_scan(w, p, this_rq, tmp, cpu + 1,
                               <<offset_deadline, w.rq[cpu].rq_prio, cpu>>)
             ELSE preempt_scan(w, p, this_rq, tmp, cpu + 1, acc)

try_preempt(w, p, this_rq) ==
    IF suitable_idle_cpus(w, p) THEN resched_best_idle(w, p)
    ELSE IF w.task[p].policy = SCHED_IDLEPRIO THEN w
    ELSE IF ~online_cpus(w, p) THEN w
    ELSE LET tmp == w.online \cap w.task[p].cpus_allowed
             acc == preempt_scan(w, p, this_rq, tmp, 0, <<0, 0 - 1, this_rq>>)
             highest_prio_rq == acc[3]
         IN  IF ~can_preempt(w, p, acc[2], w.rq[highest_prio_rq].rq_deadline,
                             w.rq[highest_prio_rq].rq_policy)
             THEN w
             ELSE resched_task(w, w.rq[highest_prio_rq].curr)

time_slice_expired(w, p) ==
    [w EXCEPT !.task[p].time_slice = timeslice,
              !.task[p].deadline = w.grq.niffies + task_deadline_diff(w, p)]

check_deadline(w, p) ==
    IF w.task[p].time_slice < RESCHED_US \/ batch_task(w, p)
    THEN time_slice_expired(w, p) ELSE w

(***************************************************************************)
(* The selector.                                                           *)
(***************************************************************************)
\* the last set bit below limit is returned, not the first one from idx
find_next_bitLast(bitmap, limit, idx) ==
    IF \E b \in bitmap : b >= idx /\ b < limit
    THEN CHOOSE b \in bitmap : b >= idx /\ b < limit
                                /\ \A o \in bitmap : (o >= idx /\ o < limit) => o <= b
    ELSE limit

find_next_bit(bitmap, limit, idx) ==
    IF \E b \in bitmap : b >= idx /\ b < limit
    THEN Min({b \in bitmap : b >= idx /\ b < limit}) ELSE limit

\* an rt band is searched for its earliest deadline like the other bands
RECURSIVE scan_bandDeadline(_, _, _, _, _, _, _)
scan_bandDeadline(w, cpu, idx, i, edt, earliest_deadline, idletask) ==
    IF i > Len(w.grq.queue[idx]) THEN <<edt, earliest_deadline, FALSE>>
    ELSE LET p == w.grq.queue[idx][i]
         IN  IF needs_other_cpu(w, p, cpu)
             THEN scan_bandDeadline(w, cpu, idx, i + 1, edt, earliest_deadline, idletask)
             ELSE LET dl == w.task[p].deadline + cache_distance(w, task_cpu(w, p), cpu, p)
                  IN  IF edt = idletask \/ deadline_before(dl, earliest_deadline)
                      THEN scan_bandDeadline(w, cpu, idx, i + 1, p, dl, idletask)
                      ELSE scan_bandDeadline(w, cpu, idx, i + 1, edt, earliest_deadline,
                                             idletask)

\* the deadlines are compared without the cache distance
RECURSIVE scan_bandNoDistance(_, _, _, _, _, _, _)
scan_bandNoDistance(w, cpu, idx, i, edt, earliest_deadline, idletask) ==
    IF i > Len(w.grq.queue[idx]) THEN <<edt, earliest_deadline, FALSE>>
    ELSE LET p == w.grq.queue[idx][i]
         IN  IF needs_other_cpu(w, p, cpu)
             THEN scan_bandNoDistance(w, cpu, idx, i + 1, edt, earliest_deadline, idletask)
             ELSE IF idx < MAX_RT_PRIO THEN <<p, earliest_deadline, TRUE>>
             ELSE LET dl == w.task[p].deadline
                  IN  IF edt = idletask \/ deadline_before(dl, earliest_deadline)
                      THEN scan_bandNoDistance(w, cpu, idx, i + 1, p, dl, idletask)
                      ELSE scan_bandNoDistance(w, cpu, idx, i + 1, edt, earliest_deadline,
                                               idletask)

\* list_for_each_entry over one band from position i: <<edt, earliest_deadline, found an rt task>>
RECURSIVE scan_band(_, _, _, _, _, _, _)
scan_band(w, cpu, idx, i, edt, earliest_deadline, idletask) ==
    IF i > Len(w.grq.queue[idx]) THEN <<edt, earliest_deadline, FALSE>>
    ELSE LET p == w.grq.queue[idx][i]
         IN  IF needs_other_cpu(w, p, cpu)
             THEN scan_band(w, cpu, idx, i + 1, edt, earliest_deadline, idletask)
             ELSE IF idx < MAX_RT_PRIO THEN <<p, earliest_deadline, TRUE>>
             ELSE LET dl == w.task[p].deadline + cache_distance(w, task_cpu(w, p), cpu, p)
                  IN  IF edt = idletask \/ deadline_before(dl, earliest_deadline)
                      THEN scan_band(w, cpu, idx, i + 1, p, dl, idletask)
                      ELSE scan_band(w, cpu, idx, i + 1, edt, earliest_deadline, idletask)

\* from the retry label with idx: the task chosen, the idle task when none is
RECURSIVE edt_retry(_, _, _, _)
edt_retry(w, cpu, idx0, idletask) ==
    LET idx == find_next_bit(w.grq.prio_bitmap, PRIO_LIMIT, idx0)
    IN  IF idx >= PRIO_LIMIT THEN idletask
        ELSE LET r == scan_band(w, cpu, idx, 1, idletask, 0, idletask)
             IN  IF r[3] THEN r[1]
                 ELSE IF r[1] = idletask
                      THEN IF idx + 1 < PRIO_LIMIT THEN edt_retry(w, cpu, idx + 1, idletask)
                           ELSE idletask
                      ELSE r[1]

\* the task earliest_deadline_task() returns; it is taken when the scan found it
edt_choice(w, cpu, idletask) == edt_retry(w, cpu, 0, idletask)
edt_found(w, cpu, idletask) ==
    \E b \in Bands : \E i \in 1 .. Len(w.grq.queue[b]) :
        /\ w.grq.queue[b][i] = edt_choice(w, cpu, idletask)
        /\ ~needs_other_cpu(w, w.grq.queue[b][i], cpu)

\* qnr is decremented whether or not a task was taken
earliest_deadline_taskDec(w, cpu, idletask) ==
    IF edt_found(w, cpu, idletask) THEN take_task(w, cpu, edt_choice(w, cpu, idletask))
    ELSE dec_qnr(w)

earliest_deadline_task(w, cpu, idletask) ==
    IF edt_found(w, cpu, idletask) THEN take_task(w, cpu, edt_choice(w, cpu, idletask)) ELSE w

(***************************************************************************)
(* Per-cpu accounting and the dispatcher.                                  *)
(***************************************************************************)
\* a task_struct that is not in use
FreeTask ==
    [policy |-> SCHED_NORMAL, static_prio |-> NICE_TO_PRIO(0), normal_prio |-> NORMAL_PRIO,
     prio |-> NORMAL_PRIO, rt_priority |-> 0, deadline |-> 0, time_slice |-> 0,
     cpus_allowed |-> CPUs, state |-> TASK_DEAD, oncpu |-> FALSE, cpu |-> 0,
     need_resched |-> FALSE, sched_reset_on_fork |-> FALSE, parent |-> NoTask,
     life |-> "free"]

\* a clock that went backwards, one jiffy, and a jump of three jiffies
RawDiffs == {0 - JIFFY_NS, JIFFY_NS, 3 * JIFFY_NS}
JiffDiffs == {0, 2}
\* the clock readings of a handler: while the run's clock budget lasts any reading that keeps
\* grq.niffies within it, after that a clock that stands still
ClockReads == IF budget.niffy = 0 THEN {<<0 - JIFFY_NS, 0>>}
              ELSE {rd \in RawDiffs \X JiffDiffs :
                       grq.niffies + niffy_diff(rd[1], rd[2]) <= budget.niffy * JIFFY_NS}

update_cpu_clockNoFifo(w, cpu, p, time_diff) ==
    IF p # idle_of(cpu)
    THEN [w EXCEPT !.rq[cpu].rq_time_slice = @ - NS_TO_US(niffy_diff(time_diff, 1))]
    ELSE w

\* time_diff: rq->clock - rq->rq_last_ran
update_cpu_clock(w, cpu, p, time_diff) ==
    IF w.rq[cpu].rq_policy # SCHED_FIFO /\ p # idle_of(cpu)
    THEN [w EXCEPT !.rq[cpu].rq_time_slice = @ - NS_TO_US(niffy_diff(time_diff, 1))]
    ELSE w

set_rq_task(w, cpu, p) ==
    [w EXCEPT !.rq[cpu].rq_time_slice = w.task[p].time_slice,
              !.rq[cpu].rq_deadline = w.task[p].deadline,
              !.rq[cpu].rq_policy = w.task[p].policy,
              !.rq[cpu].rq_prio = w.task[p].prio,
              !.rq[cpu].rq_running = (p # idle_of(cpu))]

\* the rq keeps the policy and priority it had
reset_rq_taskNone(w, cpu, p) == w

reset_rq_task(w, cpu, p) ==
    [w EXCEPT !.rq[cpu].rq_policy = w.task[p].policy,
              !.rq[cpu].rq_prio = w.task[p].prio]

signal_pending_state(state, sig) == state = TASK_INTERRUPTIBLE /\ sig

\* schedule() from the return_task() call on; prev is returned unless it is the idle task
schedule_pick(w, cpu, prev, deactivate, sig) ==
    LET idletask == idle_of(cpu)
        w1 == IF prev # idletask THEN return_task(w, prev, deactivate, sig) ELSE w
        next == IF queued_notrunning(w1) = 0 THEN idletask
                ELSE edt_choice(w1, cpu, idletask)
        w2 == IF queued_notrunning(w1) = 0 THEN set_cpuidle_map(w1, cpu)
              ELSE clear_cpuidle_map(earliest_deadline_task(w1, cpu, idletask), cpu)
        w3 == IF prev # next
              THEN [set_rq_task(w2, cpu, next) EXCEPT
                        !.task[prev].oncpu = FALSE,
                        !.task[next].oncpu = TRUE,
                        !.rq[cpu].curr = next]
              ELSE w2
    IN  \* finish_task_switch(): the last reference of a dead task is dropped
        IF prev # next /\ w3.task[prev].state = TASK_DEAD
        THEN [w3 EXCEPT !.task[prev] = FreeTask] ELSE w3

schedule(w, cpu, preempt_active, sig, rd, time_diff, dither) ==
    LET idletask == idle_of(cpu)
        prev == w.rq[cpu].curr
        w1 == update_cpu_clock(update_clocks(w, rd[1], rd[2]), cpu, prev, time_diff)
        w2 == [w1 EXCEPT !.rq[cpu].dither = dither, !.task[prev].need_resched = FALSE]
        sleeping == w2.task[prev].state # TASK_RUNNING /\ ~preempt_active
        deactivate == sleeping /\ ~signal_pending_state(w2.task[prev].state, sig)
        w3 == IF sleeping /\ ~deactivate THEN [w2 EXCEPT !.task[prev].state = TASK_RUNNING] ELSE w2
        w4 == IF prev # idletask
              THEN check_deadline([w3 EXCEPT !.task[prev].time_slice = w3.rq[cpu].rq_time_slice,
                                             !.task[prev].deadline = w3.rq[cpu].rq_deadline], prev)
              ELSE w3
    IN  IF prev = idletask THEN schedule_pick(w4, cpu, prev, deactivate, sig)
        ELSE IF needs_other_cpu(w4, prev, cpu)
             THEN schedule_pick(resched_suitable_idle(w4, prev), cpu, prev, deactivate, sig)
        ELSE IF ~deactivate
             THEN IF queued_notrunning(w4) = 0 THEN w4
                  ELSE schedule_pick(resched_suitable_idle(w4, prev), cpu, prev, deactivate, sig)
        ELSE schedule_pick(w4, cpu, prev, deactivate, sig)

(***************************************************************************)
(* Wake-up and fork.                                                       *)
(***************************************************************************)
try_to_wake_upNoCheck(w, p, state, sync, rd, sig) ==
    LET r == task_cpu(w, p)
    IN  IF w.task[p].state \notin state THEN w
        ELSE LET w1 == activate_task(w, p, rd[1], rd[2], sig)
                 w2 == IF ~sync \/ suitable_idle_cpus(w1, p) THEN try_preempt(w1, p, r) ELSE w1
             IN  [w2 EXCEPT !.task[p].state = TASK_RUNNING]

try_to_wake_upAnyState(w, p, state, sync, rd, sig) ==
    LET r == task_cpu(w, p)
    IN  IF task_queued(w, p) \/ task_running(w, p)
        THEN [w EXCEPT !.task[p].state = TASK_RUNNING]
        ELSE LET w1 == activate_task(w, p, rd[1], rd[2], sig)
                 w2 == IF ~sync \/ suitable_idle_cpus(w1, p) THEN try_preempt(w1, p, r) ELSE w1
             IN  [w2 EXCEPT !.task[p].state = TASK_RUNNING]

\* a task that is on a cpu is activated like a sleeping one
try_to_wake_upRunning(w, p, state, sync, rd, sig) ==
    LET r == task_cpu(w, p)
    IN  IF w.task[p].state \notin state THEN w
        ELSE IF task_queued(w, p) THEN [w EXCEPT !.task[p].state = TASK_RUNNING]
        ELSE LET w1 == activate_task(w, p, rd[1], rd[2], sig)
                 w2 == IF ~sync \/ suitable_idle_cpus(w1, p) THEN try_preempt(w1, p, r) ELSE w1
             IN  [w2 EXCEPT !.task[p].state = TASK_RUNNING]

\* the preemptor is called whether or not the wake-up is a sync one
try_to_wake_upNoSync(w, p, state, sync, rd, sig) ==
    LET r == task_cpu(w, p)
    IN  IF w.task[p].state \notin state THEN w
        ELSE IF task_queued(w, p) \/ task_running(w, p)
             THEN [w EXCEPT !.task[p].state = TASK_RUNNING]
        ELSE LET w1 == activate_task(w, p, rd[1], rd[2], sig)
             IN  [try_preempt(w1, p, r) EXCEPT !.task[p].state = TASK_RUNNING]

try_to_wake_up(w, p, state, sync, rd, sig) ==
    LET r == task_cpu(w, p)
    IN  IF w.task[p].state \notin state THEN w
        ELSE IF task_queued(w, p) \/ task_running(w, p)
             THEN [w EXCEPT !.task[p].state = TASK_RUNNING]
        ELSE LET w1 == activate_task(w, p, rd[1], rd[2], sig)
                 w2 == IF ~sync \/ suitable_idle_cpus(w1, p) THEN try_preempt(w1, p, r) ELSE w1
             IN  [w2 EXCEPT !.task[p].state = TASK_RUNNING]

\* what try_to_wake_up() returns: success
try_to_wake_up_success(w, p, state) ==
    IF w.task[p].state \notin state THEN 0
    ELSE IF task_queued(w, p) \/ task_running(w, p) THEN 0
    ELSE 1

\* the child starts with all of the parent's time slice and the parent keeps it
sched_forkNoShare(w, cpu, p) ==
    LET curr == w.rq[cpu].curr
    IN  [w EXCEPT !.task[p] = [w.task[curr] EXCEPT !.state = TASK_RUNNING,
                                                     !.cpu = cpu,
                                                     !.need_resched = FALSE,
                                                     !.parent = curr,
                                                     !.life = "forked",
                                                     !.sched_reset_on_fork = FALSE,
                                                     !.prio = w.task[curr].normal_prio,
                                                     !.oncpu = FALSE,
                                                     !.time_slice = w.rq[cpu].rq_time_slice]]

\* dup_task_struct() has copied current into p before sched_fork(p) runs
sched_fork(w, cpu, p) ==
    LET curr == w.rq[cpu].curr
        w1 == [w EXCEPT !.task[p] = [w.task[curr] EXCEPT !.state = TASK_RUNNING,
                                                          !.cpu = cpu,
                                                          !.need_resched = FALSE,
                                                          !.parent = curr,
                                                          !.life = "forked"]]
        rst == w1.task[p].sched_reset_on_fork
        w2 == IF rst /\ w1.task[p].policy \in {SCHED_FIFO, SCHED_RR}
              THEN LET wp == [w1 EXCEPT !.task[p].policy = SCHED_NORMAL]
                   IN  [wp EXCEPT !.task[p].normal_prio = normal_prio(wp, p)]
              ELSE w1
        w3 == IF rst /\ PRIO_TO_NICE(w2.task[p].static_prio) < 0
              THEN [w2 EXCEPT !.task[p].static_prio = NICE_TO_PRIO(0),
                              !.task[p].normal_prio = NICE_TO_PRIO(0)]
              ELSE w2
        w4 == [w3 EXCEPT !.task[p].sched_reset_on_fork = FALSE,
                         !.task[p].prio = w3.task[curr].normal_prio,
                         !.task[p].oncpu = FALSE]
    IN  IF w4.task[p].policy = SCHED_FIFO THEN w4
        ELSE IF w4.rq[cpu].rq_time_slice >= RESCHED_US * 2
             THEN [w4 EXCEPT !.rq[cpu].rq_time_slice = @ \div 2,
                             !.task[p].time_slice = w4.rq[cpu].rq_time_slice \div 2]
        ELSE time_slice_expired(
                 set_tsk_need_resched([w4 EXCEPT !.rq[cpu].rq_time_slice = 0], curr), p)

wake_up_new_task(w, p, clone_vm, rd, sig) ==
    LET r == task_cpu(w, p)
        parent == w.task[p].parent
        w1 == set_task_cpu([w EXCEPT !.task[p].state = TASK_RUNNING, !.task[p].life = "live"],
                           p, task_cpu(w, parent))
        w2 == activate_task(w1, p, rd[1], rd[2], sig)
    IN  IF ~clone_vm /\ w2.rq[r].curr = parent /\ ~suitable_idle_cpus(w2, p)
        THEN resched_task(w2, parent)
        ELSE try_preempt(w2, p, r)

(***************************************************************************)
(* The tick.                                                               *)
(***************************************************************************)
num_online_cpus(w) == Cardinality(w.online)
ISO_PERIOD(w) == (5 * HZ * num_online_cpus(w)) + 1
rt_queue(w, cpu) == rt_prio(w.rq[cpu].rq_prio)
iso_queue(w, cpu) == w.rq[cpu].rq_policy = SCHED_ISO
rq_idle(w, cpu) == w.rq[cpu].rq_prio = PRIO_LIMIT
rq_running_iso(w, cpu) == w.rq[cpu].rq_prio = ISO_PRIO

test_ret_isorefractoryNoSet(w) ==
    IF ~w.grq.iso_refractory THEN w
    ELSE IF w.grq.iso_ticks < ISO_PERIOD(w) * ((sched_iso_cpu * 115) \div 128)
         THEN [w EXCEPT !.grq.iso_refractory = FALSE] ELSE w

test_ret_isorefractory(w) ==
    IF ~w.grq.iso_refractory
    THEN IF w.grq.iso_ticks > ISO_PERIOD(w) * sched_iso_cpu
         THEN [w EXCEPT !.grq.iso_refractory = TRUE] ELSE w
    ELSE IF w.grq.iso_ticks < ISO_PERIOD(w) * ((sched_iso_cpu * 115) \div 128)
         THEN [w EXCEPT !.grq.iso_refractory = FALSE] ELSE w

iso_tick(w) == [w EXCEPT !.grq.iso_ticks = @ + 100]

no_iso_tick(w) ==
    IF w.grq.iso_ticks # 0
    THEN LET t == w.grq.iso_ticks - (w.grq.iso_ticks \div ISO_PERIOD(w) + 1)
         IN  [w EXCEPT !.grq.iso_ticks = t,
                       !.grq.iso_refractory =
                           IF @ /\ t < ISO_PERIOD(w) * ((sched_iso_cpu * 115) \div 128)
                           THEN FALSE ELSE @]
    ELSE w

\* task_running_tick() up to the test of the policy
task_running_tick_iso(w, cpu) ==
    LET w1 == IF rt_queue(w, cpu) \/ (iso_queue(w, cpu) /\ ~w.grq.iso_refractory)
              THEN IF w.grq.iso_ticks <= (ISO_PERIOD(w) * 100) - 100 THEN iso_tick(w) ELSE w
              ELSE no_iso_tick(w)
        w2 == IF iso_queue(w1, cpu) THEN test_ret_isorefractory(w1) ELSE w1
    IN  IF iso_queue(w2, cpu) /\ w2.grq.iso_refractory /\ rq_running_iso(w2, cpu)
        THEN [w2 EXCEPT !.rq[cpu].rq_time_slice = 0] ELSE w2

task_running_tick(w, cpu) ==
    LET w3 == task_running_tick_iso(w, cpu)
    IN  IF w3.rq[cpu].rq_policy = SCHED_FIFO THEN w3
        ELSE IF w3.rq[cpu].dither /\ w3.rq[cpu].rq_time_slice > HALF_JIFFY_US THEN w3
        ELSE IF ~w3.rq[cpu].dither /\ w3.rq[cpu].rq_time_slice >= RESCHED_US THEN w3
        ELSE set_tsk_need_resched(
                 [w3 EXCEPT !.rq[cpu].rq_time_slice = IF w3.rq[cpu].dither THEN 0 ELSE @],
                 w3.rq[cpu].curr)

scheduler_tick(w, cpu, time_diff) ==
    LET w1 == update_cpu_clock(w, cpu, w.rq[cpu].curr, time_diff)
    IN  IF ~rq_idle(w1, cpu) THEN task_running_tick(w1, cpu) ELSE no_iso_tick(w1)

(***************************************************************************)
(* Priority, policy and affinity changes.                                  *)
(***************************************************************************)
rt_mutex_setprio(w, p, prio, sig) ==
    LET r == task_cpu(w, p)
        oldprio == w.task[p].prio
        queued == task_queued(w, p)
        w1 == IF queued THEN dequeue_task(w, p) ELSE w
        w2 == [w1 EXCEPT !.task[p].prio = prio]
        w3 == IF task_running(w2, p) /\ prio > oldprio THEN resched_task(w2, p) ELSE w2
    IN  IF queued THEN try_preempt(enqueue_task(w3, p, sig), p, r) ELSE w3

adjust_deadline(w, p, new_prio) ==
    LET d == w.task[p].deadline + static_deadline_diff(new_prio) - task_deadline_diff(w, p)
    IN  [w EXCEPT !.task[p].deadline = IF d < 0 THEN d + U64Wrap ELSE d]

\* the nice value is stored only when the task is queued
set_user_niceQueuedOnly(w, p, nice, rd, sig) ==
    IF task_queued(w, p)
    THEN LET w1 == dequeue_task(update_clocks(w, rd[1], rd[2]), p)
             w2 == effective_prio([w1 EXCEPT !.task[p].static_prio = NICE_TO_PRIO(nice)], p)
         IN  enqueue_task(w2, p, sig)
    ELSE w

set_user_nice(w, p, nice, rd, sig) ==
    IF PRIO_TO_NICE(w.task[p].static_prio) = nice \/ nice < 0 - 20 \/ nice > 19 THEN w
    ELSE LET new_static == NICE_TO_PRIO(nice)
             r == task_cpu(w, p)
             w1 == update_clocks(w, rd[1], rd[2])
         IN  IF has_rt_policy(w1, p) THEN [w1 EXCEPT !.task[p].static_prio = new_static]
             ELSE LET queued == task_queued(w1, p)
                      w2 == IF queued THEN dequeue_task(w1, p) ELSE w1
                      w3 == adjust_deadline(w2, p, new_static)
                      old_static == w3.task[p].static_prio
                      w4 == effective_prio([w3 EXCEPT !.task[p].static_prio = new_static], p)
                  IN  IF queued
                      THEN LET w5 == enqueue_task(w4, p, sig)
                           IN  IF new_static < old_static THEN try_preempt(w5, p, r) ELSE w5
                      ELSE IF task_running(w4, p)
                           THEN LET w5 == reset_rq_task(w4, r, p)
                                IN  IF old_static < new_static THEN resched_task(w5, p) ELSE w5
                           ELSE w4

\* top: the priority of the highest pi waiter of p, MAX_PRIO when there is none
rt_mutex_getprio(w, p, top) == IF top < w.task[p].normal_prio THEN top ELSE w.task[p].normal_prio

\* the priority is stored, the policy is not
setschedulerKeepPolicy(w, p, r, policy, prio, top) ==
    LET w1 == [w EXCEPT !.task[p].rt_priority = prio]
        w2 == [w1 EXCEPT !.task[p].normal_prio = normal_prio(w1, p)]
    IN  [w2 EXCEPT !.task[p].prio = rt_mutex_getprio(w2, p, top)]

setscheduler(w, p, r, policy, prio, top) ==
    LET oldrtprio == w.task[p].rt_priority
        oldprio == w.task[p].prio
        w1 == [w EXCEPT !.task[p].policy = policy, !.task[p].rt_priority = prio]
        w2 == [w1 EXCEPT !.task[p].normal_prio = normal_prio(w1, p)]
        w3 == [w2 EXCEPT !.task[p].prio = rt_mutex_getprio(w2, p, top)]
    IN  IF task_running(w3, p)
        THEN LET w4 == reset_rq_task(w3, r, p)
             IN  IF w4.task[p].prio > oldprio \/ w4.task[p].rt_priority > oldrtprio
                 THEN resched_task(w4, p) ELSE w4
        ELSE w3

KEEP_POLICY == "KEEP_POLICY"     \* policy < 0: sched_setparam()
SCHED_RANGE(policy) == policy \in Policies

\* the checks of __sched_setscheduler() before it takes the locks:
\* <<errno or "OK" or "OUT", policy, sched_priority, reset_on_fork>>
setscheduler_checks(w, p, policy0, rof0, prio0, user, capable, rlim_rtprio, same_owner, has_mm) ==
    LET downgrade == is_rt_policy(policy0) /\ ~rof0 /\ ~capable /\ rlim_rtprio = 0
        policy1 == IF downgrade THEN SCHED_ISO ELSE policy0
        rof1 == IF downgrade THEN FALSE ELSE rof0
        prio == IF downgrade THEN 0 ELSE prio0
        reset_on_fork == IF policy1 = KEEP_POLICY THEN w.task[p].sched_reset_on_fork ELSE rof1
        policy == IF policy1 = KEEP_POLICY THEN w.task[p].policy ELSE policy1
        rlim == IF is_rt_policy(policy0) /\ ~rof0 /\ ~capable THEN rlim_rtprio ELSE 0
    IN  IF policy1 # KEEP_POLICY /\ ~SCHED_RANGE(policy) THEN <<"EINVAL", policy, prio, reset_on_fork>>
        ELSE IF prio < 0 \/ (has_mm /\ prio > MAX_USER_RT_PRIO - 1)
                \/ (~has_mm /\ prio > MAX_RT_PRIO - 1)
             THEN <<"EINVAL", policy, prio, reset_on_fork>>
        ELSE IF is_rt_policy(policy) # (prio # 0) THEN <<"EINVAL", policy, prio, reset_on_fork>>
        ELSE IF user /\ ~capable
             THEN IF is_rt_policy(policy)
                  THEN IF policy # w.task[p].policy /\ rlim = 0
                       THEN <<"EPERM", policy, prio, reset_on_fork>>
                       ELSE IF prio > w.task[p].rt_priority /\ prio > rlim
                       THEN <<"EPERM", policy, prio, reset_on_fork>>
                       ELSE IF ~same_owner THEN <<"EPERM", policy, prio, reset_on_fork>>
                       ELSE IF w.task[p].sched_reset_on_fork /\ ~reset_on_fork
                       THEN <<"EPERM", policy, prio, reset_on_fork>>
                       ELSE <<"OK", policy, prio, reset_on_fork>>
                  ELSE IF w.task[p].policy = SCHED_ISO /\ policy = SCHED_ISO
                       THEN <<"OUT", policy, prio, reset_on_fork>>
                       ELSE IF w.task[p].policy = SCHED_ISO /\ policy = SCHED_NORMAL
                       THEN <<"EPERM", policy, prio, reset_on_fork>>
                       ELSE IF w.task[p].policy = SCHED_BATCH /\ policy = SCHED_BATCH
                       THEN <<"OUT", policy, prio, reset_on_fork>>
                       ELSE IF w.task[p].policy = SCHED_BATCH
                               /\ policy \notin {SCHED_NORMAL, SCHED_IDLEPRIO}
                       THEN <<"EPERM", policy, prio, reset_on_fork>>
                       ELSE IF w.task[p].policy = SCHED_IDLEPRIO /\ policy = SCHED_IDLEPRIO
                       THEN <<"OUT", policy, prio, reset_on_fork>>
                       ELSE IF w.task[p].policy = SCHED_IDLEPRIO
                       THEN <<"EPERM", policy, prio, reset_on_fork>>
                       ELSE IF ~same_owner THEN <<"EPERM", policy, prio, reset_on_fork>>
                       ELSE IF w.task[p].sched_reset_on_fork /\ ~reset_on_fork
                       THEN <<"EPERM", policy, prio, reset_on_fork>>
                       ELSE <<"OK", policy, prio, reset_on_fork>>
             ELSE <<"OK", policy, prio, reset_on_fork>>

\* chk: what setscheduler_checks() returned
sched_setscheduler(w, p, chk, rd, top, sig) ==
    IF chk[1] # "OK" THEN w
    ELSE LET r == task_cpu(w, p)
             w1 == update_clocks(w, rd[1], rd[2])
             w2 == [w1 EXCEPT !.task[p].sched_reset_on_fork = chk[4]]
             queued == task_queued(w2, p)
             w3 == IF queued THEN dequeue_task(w2, p) ELSE w2
             w4 == setscheduler(w3, p, r, chk[2], chk[3], top)
         IN  IF queued THEN try_preempt(enqueue_task(w4, p, sig), p, r) ELSE w4

\* what __sched_setscheduler() returns; chk: what setscheduler_checks() returned
EINVAL == 22
EPERM == 1
sched_setscheduler_ret(chk) ==
    IF chk[1] = "EINVAL" THEN 0 - EINVAL
    ELSE IF chk[1] = "EPERM" THEN 0 - EPERM
    ELSE 0

cpu_active_mask(w) == w.online

\* the mask is copied before it is tested
set_cpus_allowed_ptrCopyFirst(w, p, new_mask) ==
    LET r == task_cpu(w, p)
        queued == task_queued(w, p)
        w1 == [w EXCEPT !.task[p].cpus_allowed = new_mask]
        w2 == IF task_cpu(w1, p) \in new_mask THEN w1
              ELSE IF task_running(w1, p) THEN resched_task(w1, p)
              ELSE set_task_cpu(w1, p, Min(cpu_active_mask(w1) \cap new_mask))
    IN  IF new_mask \cap cpu_active_mask(w) = {} THEN w1
        ELSE IF queued THEN try_preempt(w2, p, r) ELSE w2

set_cpus_allowed_ptr(w, p, new_mask) ==
    IF new_mask \cap cpu_active_mask(w) = {} THEN w
    ELSE LET r == task_cpu(w, p)
             queued == task_queued(w, p)
             w1 == [w EXCEPT !.task[p].cpus_allowed = new_mask]
             w2 == IF task_cpu(w1, p) \in new_mask THEN w1
                   ELSE IF task_running(w1, p) THEN resched_task(w1, p)
                   ELSE set_task_cpu(w1, p, Min(cpu_active_mask(w1) \cap new_mask))
         IN  IF queued THEN try_preempt(w2, p, r) ELSE w2

task_nice(w, p) == PRIO_TO_NICE(w.task[p].static_prio)

sched_getscheduler(w, p) == w.task[p].policy

set_cpus_allowed_ptr_ret(w, p, new_mask) ==
    IF new_mask \cap cpu_active_mask(w) = {} THEN 0 - EINVAL ELSE 0

(***************************************************************************)
(* Cpu hotplug.                                                            *)
(***************************************************************************)
cpu_possible_mask == CPUs

\* no task is given a new affinity
break_sole_affinityNone(w) == w

break_sole_affinity(w) ==
    [w EXCEPT !.task = [p \in Tasks |->
        IF p \in UserTasks /\ w.task[p].life # "free" /\ ~online_cpus(w, p)
        THEN [w.task[p] EXCEPT !.cpus_allowed = cpu_possible_mask]
        ELSE w.task[p]]]

\* take_cpu_down() has cleared the cpu's bit in cpu_online_map before it calls this
sched_idle_next(w, this_cpu) ==
    LET idletask == idle_of(this_cpu)
        w1 == break_sole_affinity([w EXCEPT !.online = @ \ {this_cpu}])
        w2 == setscheduler(w1, idletask, this_cpu, SCHED_FIFO, MAX_RT_PRIO - 1, MAX_PRIO)
        w3 == activate_idle_task(w2, idletask)
    IN  set_tsk_need_resched(w3, w3.rq[this_cpu].curr)

migration_call_dead(w, cpu, rd) ==
    LET idletask == idle_of(cpu)
        w1 == return_task(w, idletask, TRUE, FALSE)
        w2 == [w1 EXCEPT !.task[idletask].static_prio = MAX_PRIO]
        w3 == setscheduler(w2, idletask, cpu, SCHED_NORMAL, 0, MAX_PRIO)
        w4 == [w3 EXCEPT !.task[idletask].prio = PRIO_LIMIT]
    IN  update_clocks(set_rq_task(w4, cpu, idletask), rd[1], rd[2])

\* the cpu is brought up again: init_idle(), then the cpu is marked online
init_idle(w, idletask, cpu, rd) ==
    LET w1 == update_clocks(w, rd[1], rd[2])
        w2 == [w1 EXCEPT !.task[idletask].state = TASK_RUNNING,
                         !.task[idletask].prio = PRIO_LIMIT]
        w3 == set_rq_task(w2, cpu, idletask)
        w4 == [w3 EXCEPT !.task[idletask].cpus_allowed = {cpu},
                         !.task[idletask].cpu = cpu,
                         !.rq[cpu].curr = idletask,
                         !.task[idletask].oncpu = TRUE]
    IN  set_cpuidle_map(w4, cpu)

(***************************************************************************)
(* The state machine.  Every handler runs under grq.lock (the tick on the  *)
(* cpu's own rq) and is one step.                                          *)
(***************************************************************************)
\* what one run may spend: ticks and run time, forks, administrative changes
Budgets == {[ticks |-> MaxTicks, forks |-> 0, admin |-> MaxAdmin, niffy |-> 0],
            [ticks |-> 0, forks |-> MaxForks, admin |-> 0, niffy |-> 0],
            [ticks |-> 0, forks |-> 0, admin |-> 0, niffy |-> NiffySteps]}
IsoStarts == {50000}          \* grq.iso_ticks when the model takes over
Nices == {0, 19}
RtPrios == {0, 50}
PolicyInputs == Policies \cup {KEEP_POLICY, "SCHED_INVALID"}
WakeMasks == {TASK_NORMAL, {TASK_INTERRUPTIBLE}}
SleepStates == {TASK_INTERRUPTIBLE, TASK_UNINTERRUPTIBLE, TASK_DEAD}
TimeDiffs == {0, JIFFY_NS}
CpuMasks == SUBSET CPUs \ {{}}
\* <<user, capable(CAP_SYS_NICE), RLIMIT_RTPRIO, check_same_owner(p)>>
PermInputs == {<<FALSE, TRUE, 0, TRUE>>, <<TRUE, FALSE, 0, TRUE>>}

IdleTask(c) ==
    [FreeTask EXCEPT !.prio = PRIO_LIMIT, !.cpus_allowed = {c}, !.state = TASK_RUNNING,
                     !.oncpu = TRUE, !.cpu = c, !.life = "live"]

SleepingTask ==
    [FreeTask EXCEPT !.deadline = prio_deadline_diff(USER_PRIO(NICE_TO_PRIO(0))),
                     !.time_slice = timeslice, !.state = TASK_INTERRUPTIBLE, !.life = "live"]

\* the scheduler after sched_init() and init_idle() on every cpu, one task asleep
Boot(it) ==
    [grq |-> [nr_running |-> 0, nr_uninterruptible |-> 0,
              queue |-> [b \in Bands |-> <<>>], prio_bitmap |-> {PRIO_LIMIT},
              qnr |-> 0, cpu_idle_map |-> CPUs, idle_cpus |-> TRUE,
              niffies |-> 0, iso_ticks |-> it, iso_refractory |-> FALSE],
     task |-> [p \in Tasks |-> IF p \in IdleTasks THEN IdleTask(p)
                                ELSE IF p = NCPU THEN SleepingTask
                                ELSE FreeTask],
     rq |-> [c \in CPUs |-> [curr |-> idle_of(c), rq_deadline |-> 0, rq_policy |-> SCHED_NORMAL,
                              cpu_locality |-> rq_cpu_locality(c),
                              rq_time_slice |-> 0, rq_prio |-> PRIO_LIMIT,
                              rq_running |-> FALSE, dither |-> FALSE]],
     online |-> CPUs]

\* no call has been recorded
NoCall == [n |-> 0, op |-> "none", p |-> NoTask, arg |-> <<>>, ret |-> 0]

\* per cpu: the locks it holds, oldest first, and the lock operations left on its path
NoLocks == [c \in CPUs |-> [held |-> <<>>, todo |-> <<>>]]

\* a completion after init_completion(): done and its wait queue, and, kept beside them, the
\* numbers of complete() calls and of waits that returned success
NoCompletion == [done |-> 0, wait |-> <<>>, completes |-> 0, returned |-> 0]

Start(w, b) ==
    /\ grq = w.grq
    /\ task = w.task
    /\ rq = w.rq
    /\ cpu_online_map = w.online
    /\ budget = b
    /\ last = [op |-> "init", cpu |-> 0, p |-> NoTask]
    /\ call = NoCall
    /\ locks = NoLocks
    /\ completion = NoCompletion

Init == \E it \in IsoStarts, b \in Budgets : Start(Boot(it), b)

Commit(w, op, c, p) ==
    /\ grq' = w.grq
    /\ task' = w.task
    /\ rq' = w.rq
    /\ cpu_online_map' = w.online
    \* last names the last handler that changed the scheduler's state
    /\ last' = IF w = World THEN last ELSE [op |-> op, cpu |-> c, p |-> p]
    /\ call' = call
    /\ locks' = locks
    /\ completion' = completion

\* a call of op for task p whose arguments and return value are kept
Return(w, op, p, arg, ret) ==
    /\ call.n < MaxCalls
    /\ grq' = w.grq
    /\ task' = w.task
    /\ rq' = w.rq
    /\ cpu_online_map' = w.online
    /\ last' = IF w = World THEN last ELSE [op |-> op, cpu |-> task[p].cpu, p |-> p]
    /\ call' = [n |-> call.n + 1, op |-> op, p |-> p, arg |-> arg, ret |-> ret]
    /\ UNCHANGED <<budget, locks, completion>>

LiveTasks == {p \in UserTasks : task[p].life = "live"}
\* the cpus that execute code: the online ones, and a cpu going down until its idle task runs
Executing(c) == c \in cpu_online_map \/ rq[c].curr # idle_of(c)
\* signal_pending(p), where the handler would look at it
Sigs(p) == IF task[p].policy = SCHED_IDLEPRIO \/ task[p].state = TASK_INTERRUPTIBLE
           THEN BOOLEAN ELSE {FALSE}

TryToWakeUp(p) ==
    /\ p \in LiveTasks
    /\ \E state \in WakeMasks, sync \in BOOLEAN, rd \in ClockReads, sig \in Sigs(p) :
          Commit(try_to_wake_up(World, p, state, sync, rd, sig), "try_to_wake_up", task[p].cpu, p)
    /\ UNCHANGED budget

SchedFork(c, p) ==
    /\ budget.forks > 0
    /\ Executing(c)
    /\ rq[c].curr \in LiveTasks
    /\ task[rq[c].curr].state = TASK_RUNNING
    /\ p \in UserTasks /\ task[p].life = "free"
    \* the lowest free task_struct is the one allocated
    /\ \A o \in UserTasks : task[o].life = "free" => p <= o
    /\ Commit(sched_fork(World, c, p), "sched_fork", c, p)
    /\ budget' = [budget EXCEPT !.forks = @ - 1]

\* the parent, running, wakes the child it forked
WakeUpNewTask(p) ==
    /\ p \in UserTasks /\ task[p].life = "forked"
    /\ task[task[p].parent].oncpu
    /\ \E clone_vm \in BOOLEAN, rd \in ClockReads, sig \in Sigs(p) :
          Commit(wake_up_new_task(World, p, clone_vm, rd, sig), "wake_up_new_task",
                 task[task[p].parent].cpu, p)
    /\ UNCHANGED budget

\* current sets its own state before it calls schedule()
SetCurrentState(c) ==
    /\ Executing(c)
    /\ rq[c].curr \in LiveTasks
    /\ task[rq[c].curr].state = TASK_RUNNING
    /\ \A q \in UserTasks : ~(task[q].life = "forked" /\ task[q].parent = rq[c].curr)
    /\ \E s \in SleepStates :
          Commit([World EXCEPT !.task[rq[c].curr].state = s], "set_current_state", c, rq[c].curr)
    /\ UNCHANGED budget

\* time_diff: the time current has run since the rq's clock was last read
Schedule(c) ==
    /\ Executing(c)
    /\ rq[c].curr = idle_of(c) => task[idle_of(c)].need_resched
    /\ \E preempt_active \in (IF task[rq[c].curr].state \in {TASK_INTERRUPTIBLE, TASK_UNINTERRUPTIBLE}
                              THEN BOOLEAN ELSE {FALSE}),
          sig \in Sigs(rq[c].curr), rd \in ClockReads,
          time_diff \in (IF budget.ticks > 0 THEN TimeDiffs ELSE {0}) :
          \* a cpu that last ran more than half a jiffy ago is more than that past its tick
          \E dither \in (IF time_diff > HALF_JIFFY_NS THEN {FALSE} ELSE BOOLEAN) :
          /\ Commit(schedule(World, c, preempt_active, sig, rd, time_diff, dither),
                    "schedule", c, rq[c].curr)
          /\ budget' = [budget EXCEPT !.ticks = IF time_diff > 0 THEN @ - 1 ELSE @]

SchedulerTick(c) ==
    /\ Executing(c)
    /\ budget.ticks > 0
    /\ \E time_diff \in TimeDiffs :
          Commit(scheduler_tick(World, c, time_diff), "scheduler_tick", c, rq[c].curr)
    /\ budget' = [budget EXCEPT !.ticks = @ - 1]

SetUserNice(p) ==
    /\ budget.admin > 0
    /\ p \in LiveTasks
    /\ \E nice \in Nices, rd \in ClockReads, sig \in Sigs(p) :
          Commit(set_user_nice(World, p, nice, rd, sig), "set_user_nice", task[p].cpu, p)
    /\ budget' = [budget EXCEPT !.admin = @ - 1]

SchedSetscheduler(p) ==
    /\ budget.admin > 0
    /\ p \in LiveTasks
    /\ \E policy \in PolicyInputs, rof \in BOOLEAN, prio \in RtPrios, perm \in PermInputs,
          rd \in ClockReads, sig \in Sigs(p) :
          LET chk == setscheduler_checks(World, p, policy, rof, prio, perm[1], perm[2],
                                         perm[3], perm[4], TRUE)
          IN  Commit(sched_setscheduler(World, p, chk, rd, MAX_PRIO, sig),
                     "sched_setscheduler", task[p].cpu, p)
    /\ budget' = [budget EXCEPT !.admin = @ - 1]

\* a pi waiter of priority 50 arrives at, or the last one leaves, a lock that p holds
RtMutexSetprio(p) ==
    /\ budget.admin > 0
    /\ p \in LiveTasks
    /\ \E prio \in {MAX_RT_PRIO - 1 - 50, task[p].normal_prio}, sig \in Sigs(p) :
          Commit(rt_mutex_setprio(World, p, prio, sig), "rt_mutex_setprio", task[p].cpu, p)
    /\ budget' = [budget EXCEPT !.admin = @ - 1]

SetCpusAllowedPtr(p) ==
    /\ budget.admin > 0
    /\ p \in LiveTasks
    /\ \E new_mask \in CpuMasks :
          Commit(set_cpus_allowed_ptr(World, p, new_mask), "set_cpus_allowed_ptr", task[p].cpu, p)
    /\ budget' = [budget EXCEPT !.admin = @ - 1]

\* take_cpu_down() on the cpu going down, in its stopper thread
SchedIdleNext(c) ==
    /\ budget.admin > 0
    /\ c \in cpu_online_map
    /\ cpu_online_map # {c}
    /\ rq[c].curr \in LiveTasks
    /\ Commit(sched_idle_next(World, c), "sched_idle_next", c, idle_of(c))
    /\ budget' = [budget EXCEPT !.admin = @ - 1]

\* CPU_DEAD is notified once the dead cpu runs its idle task
MigrationCallDead(c) ==
    /\ c \notin cpu_online_map
    /\ rq[c].curr = idle_of(c)
    /\ task[idle_of(c)].prio # PRIO_LIMIT
    /\ \E rd \in ClockReads :
          Commit(migration_call_dead(World, c, rd), "migration_call", c, idle_of(c))
    /\ UNCHANGED budget

CpuUp(c) ==
    /\ c \notin cpu_online_map
    /\ task[idle_of(c)].prio = PRIO_LIMIT
    /\ \E rd \in ClockReads :
          Commit([init_idle(World, idle_of(c), c, rd) EXCEPT !.online = @ \cup {c}],
                 "init_idle", c, idle_of(c))
    /\ UNCHANGED budget

Next ==
    \/ \E p \in UserTasks : TryToWakeUp(p)
    \/ \E c \in CPUs, p \in UserTasks : SchedFork(c, p)
    \/ \E p \in UserTasks : WakeUpNewTask(p)
    \/ \E c \in CPUs : SetCurrentState(c)
    \/ \E c \in CPUs : Schedule(c)
    \/ \E c \in CPUs : SchedulerTick(c)
    \/ \E p \in UserTasks : SetUserNice(p)
    \/ \E p \in UserTasks : SchedSetscheduler(p)
    \/ \E p \in UserTasks : RtMutexSetprio(p)
    \/ \E p \in UserTasks : SetCpusAllowedPtr(p)
    \/ \E c \in CPUs : SchedIdleNext(c)
    \/ \E c \in CPUs : MigrationCallDead(c)
    \/ \E c \in CPUs : CpuUp(c)

Spec == Init /\ [][Next]_vars

(***************************************************************************)
(* Properties.                                                             *)
(***************************************************************************)
InUse == {p \in Tasks : task[p].life # "free"}
Links(p) == Cardinality({<<b, i>> \in Bands \X (1 .. NCPU + NTASK) :
                            i <= Len(grq.queue[b]) /\ grq.queue[b][i] = p})
NrLinked == Cardinality(Queued(World))
BusyCpus == {c \in CPUs : rq[c].curr # idle_of(c)}

\* C1: between handlers every task is in exactly one of three conditions: linked once in the
\* global runqueue and not on a cpu; on a cpu (the current task of exactly the cpus it is
\* marked running on) and not linked; or neither (blocked, sleeping, dead, not yet woken).
C1_OneCondition ==
    \A p \in InUse :
        /\ Links(p) <= 1
        /\ ~(Links(p) = 1 /\ task[p].oncpu)
        /\ task[p].oncpu <=> (\E c \in CPUs : rq[c].curr = p)
        /\ Cardinality({c \in CPUs : rq[c].curr = p}) <= 1

C1_Witness ==
    /\ last.op = "schedule"
    /\ \E p, q \in UserTasks : /\ Links(p) = 1 /\ ~task[p].oncpu
                               /\ Links(q) = 0 /\ task[q].oncpu /\ task[q].life = "live"

\* C2: between handlers, for every priority band b, bit b of grq.prio_bitmap is set exactly
\* when the queue of band b is not empty.
C2_Bitmap == \A b \in Bands : (b \in grq.prio_bitmap) <=> (grq.queue[b] # <<>>)

C2_Witness ==
    /\ last.op = "try_to_wake_up"
    /\ \E b \in Bands : b < MAX_RT_PRIO /\ grq.queue[b] = <<last.p>> /\ b \in grq.prio_bitmap
    /\ NORMAL_PRIO \notin grq.prio_bitmap

\* C3 as the specification states it: grq.nr_running is the number of queued tasks plus the
\* number of cpus whose current task is not the cpu's idle task.
C3_Original == grq.nr_running = NrLinked + Cardinality(BusyCpus)

\* the cpus whose current task is the idle task that sched_idle_next() made runnable
IdleActivated == {c \in CPUs : rq[c].curr = idle_of(c) /\ task[idle_of(c)].prio # PRIO_LIMIT}

\* C3: grq.nr_running is the number of queued tasks (an idle task queued by sched_idle_next()
\* among them) plus the number of cpus whose current task is not the idle task or is the idle
\* task that sched_idle_next() activated and CPU_DEAD has not yet deactivated.
C3_NrRunning == grq.nr_running = NrLinked + Cardinality(BusyCpus) + Cardinality(IdleActivated)

C3_Witness ==
    /\ last.op = "schedule"
    /\ IdleActivated # {}
    /\ grq.nr_running > NrLinked + Cardinality(BusyCpus)

\* C4: between handlers grq.qnr is the number of tasks linked in the band lists.
C4_Qnr == grq.qnr = NrLinked

C4_Witness == last.op = "schedule" /\ rq[last.cpu].curr \in UserTasks /\ grq.qnr = 1

\* C5: between handlers the cpu_idle_map bit of a cpu is set exactly when the cpu's current
\* task is its idle task.
C5_IdleMap == \A c \in CPUs : (c \in grq.cpu_idle_map) <=> (rq[c].curr = idle_of(c))

\* C6: grq.niffies never decreases, whatever the clocks read.
C6_Monotonic == [][grq.niffies' >= grq.niffies]_vars

C6_Witness == grq.niffies > 0

\* C7: when schedule() on cpu c switches to a task that is not an idle task, c is in the
\* task's cpus_allowed.
C7_Allowed ==
    [][\A c \in CPUs :
          (rq'[c].curr # rq[c].curr /\ rq'[c].curr \in UserTasks)
              => c \in task[rq'[c].curr].cpus_allowed]_vars

C7_Witness ==
    /\ last.op = "schedule"
    /\ last.p = idle_of(last.cpu)
    /\ rq[last.cpu].curr \in UserTasks
    /\ task[rq[last.cpu].curr].cpus_allowed = {last.cpu}

\* the step is a scheduler_tick() on cpu c
TickOn(c) ==
    /\ budget'.ticks = budget.ticks - 1
    /\ last'.op = "scheduler_tick"
    /\ last'.cpu = c

\* C8: a tick on a cpu whose current task is SCHED_FIFO decreases neither rq_time_slice of the
\* cpu nor time_slice of the task.
C8_FifoSlice ==
    [][\A c \in CPUs :
          (TickOn(c) /\ rq[c].curr \in UserTasks /\ task[rq[c].curr].policy = SCHED_FIFO)
              => /\ rq'[c].rq_time_slice >= rq[c].rq_time_slice
                 /\ task'[rq[c].curr].time_slice >= task[rq[c].curr].time_slice]_vars

C8_Witness ==
    /\ last.op = "scheduler_tick"
    /\ rq[last.cpu].curr \in UserTasks
    /\ task[rq[last.cpu].curr].policy = SCHED_FIFO
    /\ rq[last.cpu].rq_time_slice > 0

\* the handlers that act on behalf of a task
TaskOps == {"try_to_wake_up", "wake_up_new_task", "set_user_nice", "sched_setscheduler",
            "rt_mutex_setprio", "set_cpus_allowed_ptr"}

\* C9: a handler acting for a SCHED_IDLEPRIO task (wake-up, wake-up of a new task, priority or
\* affinity change) never sets need_resched on the current task of a cpu when that task is
\* another task, not SCHED_IDLEPRIO itself, running at NORMAL_PRIO.
C9_IdleprioNoResched ==
    [][\A c \in CPUs :
          (/\ rq[c].curr \in UserTasks
           /\ rq'[c].curr = rq[c].curr
           /\ rq[c].rq_prio = NORMAL_PRIO
           /\ task[rq[c].curr].policy # SCHED_IDLEPRIO
           /\ ~task[rq[c].curr].need_resched
           /\ task'[rq[c].curr].need_resched)
              => ~(/\ last'.op \in TaskOps
                   /\ last'.p # rq[c].curr
                   /\ task'[last'.p].policy = SCHED_IDLEPRIO)]_vars

\* a SCHED_IDLEPRIO task bound to cpu 0 sleeps: the first task after sched_setscheduler() and
\* set_cpus_allowed_ptr()
IdleprioBoot ==
    LET p == NCPU
        w1 == sched_setscheduler(Boot(0), p, <<"OK", SCHED_IDLEPRIO, 0, FALSE>>,
                                 <<0 - JIFFY_NS, 0>>, MAX_PRIO, FALSE)
    IN  set_cpus_allowed_ptr(w1, p, {0})

InitIdleprio ==
    Start(IdleprioBoot, [ticks |-> 0, forks |-> MaxForks, admin |-> MaxAdmin, niffy |-> 0])

NextIdleprio ==
    \/ \E p \in UserTasks : TryToWakeUp(p)
    \/ \E c \in CPUs, p \in UserTasks : SchedFork(c, p)
    \/ \E p \in UserTasks : WakeUpNewTask(p)
    \/ \E c \in CPUs : SetCurrentState(c)
    \/ \E c \in CPUs : Schedule(c)
    \/ \E p \in UserTasks : SchedSetscheduler(p)

SpecIdleprio == InitIdleprio /\ [][NextIdleprio]_vars

IsoLimit == ISO_PERIOD(World) * sched_iso_cpu

Called(op) == call'.n = call.n + 1 /\ call'.op = op

TryToWakeUpCall(p) ==
    /\ p \in LiveTasks
    /\ \E state \in WakeMasks, sync \in BOOLEAN, rd \in ClockReads, sig \in Sigs(p) :
          Return(try_to_wake_up(World, p, state, sync, rd, sig), "try_to_wake_up", p,
                 state, try_to_wake_up_success(World, p, state))

\* arguments of the recorded calls, the ones the calls reject among them
PrioArgs == {0 - 1, 0, 50, MAX_USER_RT_PRIO}
NiceArgs == {0 - 21, 0 - 20, 0, 19, 20}
MaskArgs == SUBSET CPUs

\* arg: <<policy, reset_on_fork, sched_priority, <<user, capable, RLIMIT_RTPRIO, same owner>>>>
SchedSetschedulerCall(p) ==
    /\ p \in LiveTasks
    /\ \E policy \in PolicyInputs, rof \in BOOLEAN, prio \in PrioArgs, perm \in PermInputs,
          rd \in ClockReads, sig \in Sigs(p) :
          LET chk == setscheduler_checks(World, p, policy, rof, prio, perm[1], perm[2],
                                         perm[3], perm[4], TRUE)
          IN  Return(sched_setscheduler(World, p, chk, rd, MAX_PRIO, sig), "sched_setscheduler",
                     p, <<policy, rof, prio, perm>>, sched_setscheduler_ret(chk))

SetUserNiceCall(p) ==
    /\ p \in LiveTasks
    /\ \E nice \in NiceArgs, rd \in ClockReads, sig \in Sigs(p) :
          Return(set_user_nice(World, p, nice, rd, sig), "set_user_nice", p, nice, 0)

SetCpusAllowedPtrCall(p) ==
    /\ p \in LiveTasks
    /\ \E new_mask \in MaskArgs :
          Return(set_cpus_allowed_ptr(World, p, new_mask), "set_cpus_allowed_ptr", p, new_mask,
                 set_cpus_allowed_ptr_ret(World, p, new_mask))

InitCalls ==
    \E it \in IsoStarts :
        Start(Boot(it), [ticks |-> 0, forks |-> MaxForks, admin |-> MaxAdmin, niffy |-> 0])

NextCalls ==
    \/ \E p \in UserTasks : TryToWakeUp(p)
    \/ \E c \in CPUs : SetCurrentState(c)
    \/ \E c \in CPUs : Schedule(c)
    \/ \E p \in UserTasks : SchedSetscheduler(p)
    \/ \E p \in UserTasks : TryToWakeUpCall(p)
    \/ \E p \in UserTasks : SchedSetschedulerCall(p)
    \/ \E p \in UserTasks : SetUserNiceCall(p)
    \/ \E p \in UserTasks : SetCpusAllowedPtrCall(p)

SpecCalls == InitCalls /\ [][NextCalls]_vars

\* C11: a try_to_wake_up(t, mask) that finds t.state outside mask returns 0 and activates
\* nothing: t and the band lists are as before, and so are grq.nr_running and grq.qnr.
C11_LostWake ==
    [][(Called("try_to_wake_up") /\ task[call'.p].state \notin call'.arg)
          => /\ call'.ret = 0
             /\ task'[call'.p] = task[call'.p]
             /\ grq'.queue = grq.queue
             /\ grq'.nr_running = grq.nr_running
             /\ grq'.qnr = grq.qnr]_vars

C11_Witness ==
    /\ call.op = "try_to_wake_up"
    /\ call.ret = 0
    /\ task[call.p].state = TASK_UNINTERRUPTIBLE
    /\ call.arg = {TASK_INTERRUPTIBLE}
    /\ ~task_queued(World, call.p)

\* the recorded call has an argument that is not valid for it
BadArgument(c) ==
    \/ /\ c.op = "sched_setscheduler"
       /\ \/ c.arg[1] \notin Policies \cup {KEEP_POLICY}
          \/ c.arg[3] \notin 0 .. (MAX_USER_RT_PRIO - 1)
    \/ c.op = "set_user_nice" /\ c.arg \notin (0 - 20) .. 19
    \/ c.op = "set_cpus_allowed_ptr" /\ c.arg \cap cpu_online_map = {}

\* the step leaves every task, the global runqueue and the cpus' runqueues as they were
NothingChanged == task' = task /\ grq' = grq /\ rq' = rq

\* C12 as the specification states it: a recorded sched_setscheduler(), set_user_nice() or
\* set_cpus_allowed_ptr() call with a bad argument changes nothing.
C12_Original == [][(call'.n = call.n + 1 /\ BadArgument(call')) => NothingChanged]_vars

\* a realtime policy asked for without CAP_SYS_NICE and with RLIMIT_RTPRIO 0
Downgraded(c) ==
    /\ c.op = "sched_setscheduler"
    /\ is_rt_policy(c.arg[1]) /\ ~c.arg[2] /\ ~c.arg[4][2] /\ c.arg[4][3] = 0

\* C12: a call that returns an error changes nothing, and so does a set_user_nice() with a
\* nice value out of range; a call with a bad argument returns -EINVAL (set_user_nice()
\* returns nothing), except that a realtime policy asked for without CAP_SYS_NICE and with
\* RLIMIT_RTPRIO 0 is stored as SCHED_ISO with priority 0 whatever priority was passed.
C12_Rejected ==
    [][(call'.n = call.n + 1
           /\ call'.op \in {"sched_setscheduler", "set_user_nice", "set_cpus_allowed_ptr"})
          => /\ call'.ret # 0 => NothingChanged
             /\ (BadArgument(call') /\ ~Downgraded(call'))
                   => /\ NothingChanged
                      /\ call'.op # "set_user_nice" => call'.ret = 0 - EINVAL
             /\ (BadArgument(call') /\ Downgraded(call') /\ call'.ret = 0)
                   => /\ task'[call'.p].policy = SCHED_ISO
                      /\ task'[call'.p].rt_priority = 0]_vars

C12_Witness ==
    /\ call.op = "set_cpus_allowed_ptr"
    /\ call.ret = 0 - EINVAL
    /\ task_queued(World, call.p)

(***************************************************************************)
(* Locking.  Each entry point is reduced to the lock and unlock calls it   *)
(* makes, in program order; the cpus run their paths one call at a time,   *)
(* a lock call waiting while another cpu holds the lock.                   *)
(***************************************************************************)
Lock(l) == [a |-> "lock", l |-> l]
Unlock(l) == [a |-> "unlock", l |-> l]

grq_lock_path == <<Lock("grq.lock"), Unlock("grq.lock")>>
grq_iso_lock_path == <<Lock("iso_lock"), Unlock("iso_lock")>>
pi_lock_grq_lock_path ==
    <<Lock("pi_lock"), Lock("grq.lock"), Unlock("grq.lock"), Unlock("pi_lock")>>

\* iso_tick() or no_iso_tick() or neither, then grq_lock() to flag the task or a return
task_running_tick_locksNested ==
    {<<Lock("iso_lock"), Lock("grq.lock"), Unlock("grq.lock"), Unlock("iso_lock")>>}

task_running_tick_locks ==
    {iso \o flag : iso \in {<<>>, grq_iso_lock_path}, flag \in {<<>>, grq_lock_path}}

\* scheduler_tick() on an idle cpu: no_iso_tick()
scheduler_tick_idle_locks == {<<>>, grq_iso_lock_path}

\* the policy is checked again under the locks and the locks retaken if it changed
sched_setscheduler_locks ==
    {pi_lock_grq_lock_path, pi_lock_grq_lock_path \o pi_lock_grq_lock_path}

\* the rt_mutex code calls rt_mutex_setprio() with p->pi_lock held
rt_mutex_setprio_locks == {pi_lock_grq_lock_path}

normalize_rt_tasks_locks == {pi_lock_grq_lock_path}

\* try_to_wake_up, sched_fork, wake_up_new_task, schedule, set_user_nice,
\* set_cpus_allowed_ptr, init_idle, sched_idle_next, migration_call
grq_only_locks == {grq_lock_path}

LockPaths ==
    task_running_tick_locks \cup scheduler_tick_idle_locks \cup sched_setscheduler_locks
        \cup rt_mutex_setprio_locks \cup normalize_rt_tasks_locks \cup grq_only_locks

HeldBy(c) == {locks[c].held[i] : i \in 1 .. Len(locks[c].held)}

\* a cpu enters one of the entry points
EnterPath(c) ==
    /\ locks[c].todo = <<>>
    /\ locks[c].held = <<>>
    /\ \E path \in LockPaths \ {<<>>} : locks' = [locks EXCEPT ![c].todo = path]
    /\ UNCHANGED <<grq, task, rq, cpu_online_map, budget, last, call, completion>>

\* raw_spin_lock(): spins until no other cpu holds the lock
AcquireLock(c) ==
    /\ locks[c].todo # <<>>
    /\ Head(locks[c].todo).a = "lock"
    /\ \A o \in CPUs \ {c} : Head(locks[c].todo).l \notin HeldBy(o)
    /\ locks' = [locks EXCEPT ![c].held = Append(@, Head(locks[c].todo).l),
                              ![c].todo = Tail(@)]
    /\ UNCHANGED <<grq, task, rq, cpu_online_map, budget, last, call, completion>>

\* raw_spin_unlock()
ReleaseLock(c) ==
    /\ locks[c].todo # <<>>
    /\ Head(locks[c].todo).a = "unlock"
    /\ locks' = [locks EXCEPT ![c].held = Remove(@, Head(locks[c].todo).l),
                              ![c].todo = Tail(@)]
    /\ UNCHANGED <<grq, task, rq, cpu_online_map, budget, last, call, completion>>

InitLocks == \E it \in IsoStarts :
        Start(Boot(it), [ticks |-> 0, forks |-> 0, admin |-> 0, niffy |-> 0])

NextLocks ==
    \/ \E c \in CPUs : EnterPath(c)
    \/ \E c \in CPUs : AcquireLock(c)
    \/ \E c \in CPUs : ReleaseLock(c)

SpecLocks == InitLocks /\ [][NextLocks]_vars

LockRank(l) == IF l = "pi_lock" THEN 1 ELSE IF l = "grq.lock" THEN 2 ELSE 3

\* C13: the locks a cpu holds were taken in the order pi_lock, grq.lock, iso_lock: no cpu
\* takes pi_lock while it holds grq.lock or iso_lock, none takes grq.lock while it holds
\* iso_lock, and none takes a lock it already holds.
C13_LockOrder ==
    \A c \in CPUs : \A i, j \in 1 .. Len(locks[c].held) :
        i < j => LockRank(locks[c].held[i]) < LockRank(locks[c].held[j])

C13_Witness ==
    \E c, o \in CPUs :
        /\ locks[c].held = <<"pi_lock", "grq.lock">>
        /\ locks[o].held = <<"iso_lock">>

\* the scheduler's state after the step
WorldAfter == [grq |-> grq', task |-> task', rq |-> rq', online |-> cpu_online_map']

\* C14: after set_user_nice(t, n) with n in -20..19 on a task with a non-RT policy,
\* queued, running or blocked, task_nice(t) is n.
C14_NiceRoundTrip ==
    [][(Called("set_user_nice") /\ call'.arg \in (0 - 20) .. 19
           /\ ~has_rt_policy(World, call'.p))
          => task_nice(WorldAfter, call'.p) = call'.arg]_vars

C14_Witness ==
    /\ call.op = "set_user_nice"
    /\ call.arg = 19
    /\ task_nice(World, call.p) = 19
    /\ task[call.p].policy = SCHED_IDLEPRIO
    /\ task_running(World, call.p)

\* C15 as the specification states it: after a recorded sched_setscheduler(t, p, v) that
\* returns 0, sched_getscheduler(t) is p, for every caller.
C15_Original ==
    [][(Called("sched_setscheduler") /\ call'.ret = 0 /\ call'.arg[1] \in Policies)
          => sched_getscheduler(WorldAfter, call'.p) = call'.arg[1]]_vars

\* C15: after a recorded sched_setscheduler(t, p, v) that returns 0, sched_getscheduler(t)
\* is p, the reset-on-fork bit left out, unless p is SCHED_FIFO or SCHED_RR without that bit
\* and the caller has neither CAP_SYS_NICE nor a non-zero RLIMIT_RTPRIO: then it is
\* SCHED_ISO.
C15_PolicyRoundTrip ==
    [][(Called("sched_setscheduler") /\ call'.ret = 0 /\ call'.arg[1] \in Policies)
          => sched_getscheduler(WorldAfter, call'.p)
                = IF Downgraded(call') THEN SCHED_ISO ELSE call'.arg[1]]_vars

C15_Witness ==
    /\ call.op = "sched_setscheduler"
    /\ call.ret = 0
    /\ call.arg[1] = SCHED_RR
    /\ call.arg[2]
    /\ sched_getscheduler(World, call.p) = SCHED_RR
    /\ task[call.p].sched_reset_on_fork

\* the global runqueue after enqueue_task(p) followed at once by dequeue_task(p)
EnqueueDequeue(p, sig) == dequeue_task(enqueue_task(World, p, sig), p).grq

\* C16: in every reachable state, for every live task that is not queued, enqueue_task()
\* followed at once by dequeue_task() leaves every band list and the priority bitmap as
\* they were.
C16_EnqueueDequeue ==
    \A p \in LiveTasks : \A sig \in BOOLEAN :
        ~task_queued(World, p)
            => /\ EnqueueDequeue(p, sig).queue = grq.queue
               /\ EnqueueDequeue(p, sig).prio_bitmap = grq.prio_bitmap

\* a task that is not queued while the band it would be queued in holds another task
C16_Witness ==
    \E p \in LiveTasks : \E sig \in BOOLEAN :
        /\ ~task_queued(World, p)
        /\ grq.queue[enqueue_task(World, p, sig).task[p].prio] # <<>>
        /\ EnqueueDequeue(p, sig).queue = grq.queue
        /\ EnqueueDequeue(p, sig).prio_bitmap = grq.prio_bitmap
        /\ enqueue_task(World, p, sig).grq.queue # grq.queue

(***************************************************************************)
(* Affinity changes and cpu removal together.                              *)
(***************************************************************************)
InitHotplug ==
    \E it \in IsoStarts :
        Start(Boot(it), [ticks |-> 0, forks |-> 0, admin |-> MaxUnplug, niffy |-> 0])

NextHotplug ==
    \/ \E p \in UserTasks : TryToWakeUp(p)
    \/ \E c \in CPUs : SetCurrentState(c)
    \/ \E c \in CPUs : Schedule(c)
    \/ \E p \in UserTasks : SetCpusAllowedPtr(p)
    \/ \E p \in UserTasks : SetCpusAllowedPtrCall(p)
    \/ \E c \in CPUs : SchedIdleNext(c)
    \/ \E c \in CPUs : MigrationCallDead(c)
    \/ \E c \in CPUs : CpuUp(c)

SpecHotplug == InitHotplug /\ [][NextHotplug]_vars

\* C17 as the specification states it: every task linked in the global runqueue is allowed
\* on at least one online cpu.
C17_Original == \A p \in Queued(World) : online_cpus(World, p)

\* C17: every task linked in the global runqueue that is not the idle task of a cpu being
\* removed has a cpus_allowed that holds an online cpu; the idle task that
\* sched_idle_next() queues is allowed on the removed cpu only.
C17_QueuedAffinity ==
    \A p \in Queued(World) :
        IF p \in IdleTasks
        THEN p \notin cpu_online_map /\ task[p].cpus_allowed = {p}
        ELSE online_cpus(World, p)

\* a queued task that was bound to one cpu, after that cpu was removed
C17_Witness ==
    /\ call.op = "set_cpus_allowed_ptr"
    /\ call.ret = 0
    /\ \E c \in CPUs \ cpu_online_map : call.arg = {c}
    /\ call.p \in Queued(World)
    /\ task[call.p].cpus_allowed = cpu_possible_mask

\* C18 as the specification states it: no idle task is linked in a band list.
C18_Original == \A c \in CPUs : ~task_queued(World, idle_of(c))

\* C18: an idle task is linked in a band list only while its cpu is being removed, from
\* sched_idle_next() until that cpu's schedule() picks it: its cpu is offline and runs
\* another task, and the idle task is SCHED_FIFO with rt_priority MAX_RT_PRIO - 1, linked
\* in band 0.  The idle task of an online cpu, and an idle task that is running, is never
\* linked.
C18_IdleLinked ==
    \A c \in CPUs :
        task_queued(World, idle_of(c))
            => /\ c \notin cpu_online_map
               /\ rq[c].curr # idle_of(c)
               /\ task[idle_of(c)].policy = SCHED_FIFO
               /\ task[idle_of(c)].rt_priority = MAX_RT_PRIO - 1
               /\ InSeq(grq.queue[0], idle_of(c))

\* the removed cpu has picked its idle task, which is linked no more
C18_Witness ==
    /\ last.op = "schedule"
    /\ last.cpu \notin cpu_online_map
    /\ rq[last.cpu].curr = idle_of(last.cpu)
    /\ task[idle_of(last.cpu)].policy = SCHED_FIFO
    /\ ~task_queued(World, idle_of(last.cpu))

(***************************************************************************)
(* Two tasks in different bands.  The first task is woken and runs on cpu  *)
(* 0, forks the second and wakes it; the child is made SCHED_IDLEPRIO and  *)
(* the parent is bound to cpu 0.                                           *)
(***************************************************************************)
BandsBoot ==
    LET p == NCPU
        child == NCPU + 1
        rd == <<0 - JIFFY_NS, 0>>
        w1 == try_to_wake_up(Boot(0), p, TASK_ALL, FALSE, rd, FALSE)
        w2 == schedule(w1, 0, FALSE, FALSE, rd, 0, FALSE)
        w3 == sched_fork(w2, 0, child)
        w4 == wake_up_new_task(w3, child, FALSE, rd, FALSE)
        w5 == sched_setscheduler(w4, child, <<"OK", SCHED_IDLEPRIO, 0, FALSE>>, rd, MAX_PRIO, FALSE)
    IN  set_cpus_allowed_ptr(w5, p, {0})

InitBands == Start(BandsBoot, [ticks |-> 0, forks |-> 0, admin |-> 0, niffy |-> 0])

NextBands ==
    \/ \E p \in UserTasks : TryToWakeUp(p)
    \/ \E c \in CPUs : SetCurrentState(c)
    \/ \E c \in CPUs : Schedule(c)

SpecBands == InitBands /\ [][NextBands]_vars

\* the step is a schedule() on cpu c that leaves the cpu with a task of band IDLE_PRIO
PickedIdleprio(c) ==
    /\ WorldAfter # World
    /\ last'.op = "schedule" /\ last'.cpu = c
    /\ rq'[c].curr \in UserTasks
    /\ task'[rq'[c].curr].prio = IDLE_PRIO

\* C19 as the specification states it: when schedule() has selected a task of band
\* IDLE_PRIO, the RT, ISO and NORMAL bands are empty.
C19_Original ==
    [][\A c \in CPUs : PickedIdleprio(c)
          => \A b \in Bands : b < IDLE_PRIO => grq'.queue[b] = <<>>]_vars

\* C19: when schedule() on a cpu has selected a task of band IDLE_PRIO, every task linked
\* in the RT, ISO and NORMAL bands is one that cpus_allowed keeps off that cpu.
C19_LowerBandsElsewhere ==
    [][\A c \in CPUs : PickedIdleprio(c)
          => \A b \in Bands : b < IDLE_PRIO
                => \A i \in 1 .. Len(grq'.queue[b]) :
                      needs_other_cpu(WorldAfter, grq'.queue[b][i], c)]_vars

C19_Witness ==
    /\ last.op = "schedule"
    /\ rq[last.cpu].curr \in UserTasks
    /\ task[rq[last.cpu].curr].prio = IDLE_PRIO
    /\ grq.queue[NORMAL_PRIO] # <<>>
    /\ \A i \in 1 .. Len(grq.queue[NORMAL_PRIO]) :
          needs_other_cpu(World, grq.queue[NORMAL_PRIO][i], last.cpu)

(***************************************************************************)
(* Fork with 5000 us of time slice left.  A task of the given policy is    *)
(* woken, runs on cpu 0 and is ticked after 1144 us of its 6144 us slice.  *)
(***************************************************************************)
ForkBoot(policy) ==
    LET p == NCPU
        rd == <<0 - JIFFY_NS, 0>>
        prio == IF is_rt_policy(policy) THEN 50 ELSE 0
        w0 == sched_setscheduler(Boot(0), p, <<"OK", policy, prio, FALSE>>, rd, MAX_PRIO, FALSE)
        w1 == try_to_wake_up(w0, p, TASK_ALL, FALSE, rd, FALSE)
        w2 == schedule(w1, 0, FALSE, FALSE, rd, 0, FALSE)
    IN  \* the run time in ns whose NS_TO_US() is timeslice - 5000
        scheduler_tick(w2, 0, (timeslice - 5000) * 1024)

InitFork ==
    \E policy \in Policies :
        Start(ForkBoot(policy), [ticks |-> 0, forks |-> MaxForks, admin |-> 0, niffy |-> 0])

NextFork ==
    \/ \E p \in UserTasks : TryToWakeUp(p)
    \/ \E c \in CPUs, p \in UserTasks : SchedFork(c, p)
    \/ \E p \in UserTasks : WakeUpNewTask(p)
    \/ \E c \in CPUs : SetCurrentState(c)
    \/ \E c \in CPUs : Schedule(c)

SpecFork == InitFork /\ [][NextFork]_vars

\* the step is a sched_fork() on cpu c whose current task is not SCHED_FIFO and has
\* rq_time_slice 5000
ForkAt5000(c) ==
    /\ WorldAfter # World
    /\ last'.op = "sched_fork" /\ last'.cpu = c
    /\ rq[c].rq_time_slice = 5000
    /\ task[rq[c].curr].policy # SCHED_FIFO

\* C20 as the specification states it: the parent is left with 2500, the child gets 2500 and
\* the child's deadline is before the parent's.
C20_Original ==
    [][\A c \in CPUs : ForkAt5000(c)
          => /\ rq'[c].rq_time_slice = 2500
             /\ task'[last'.p].time_slice = 2500
             /\ deadline_before(task'[last'.p].deadline, task'[rq[c].curr].deadline)]_vars

\* C20: the parent is left with rq_time_slice 2500, the child gets time_slice 2500, and the
\* child's deadline is the parent's deadline, copied with the task structure.
C20_ForkShare ==
    [][\A c \in CPUs : ForkAt5000(c)
          => /\ rq'[c].rq_time_slice = 2500
             /\ task'[last'.p].time_slice = 2500
             /\ task'[last'.p].deadline = task[rq[c].curr].deadline
             /\ task'[rq[c].curr].deadline = task[rq[c].curr].deadline
             /\ ~task'[rq[c].curr].need_resched]_vars

C20_Witness ==
    /\ last.op = "sched_fork"
    /\ task[last.p].life = "forked"
    /\ task[last.p].policy = SCHED_ISO
    /\ rq[last.cpu].rq_time_slice = 2500
    /\ task[last.p].time_slice = 2500
    /\ task[last.p].deadline = task[task[last.p].parent].deadline

(***************************************************************************)
(* One cpu.  Only the boot cpu has been brought up: the other cpus are     *)
(* possible but not online and their idle tasks have not been initialised. *)
(***************************************************************************)
SingleBoot == [Boot(0) EXCEPT !.online = {0}, !.grq.cpu_idle_map = {0}]

\* wake_up_process(p) is try_to_wake_up(p, TASK_ALL, 0)
WakeUpProcessCall(p) ==
    /\ p \in LiveTasks
    /\ \E rd \in ClockReads, sig \in Sigs(p) :
          Return(try_to_wake_up(World, p, TASK_ALL, FALSE, rd, sig), "wake_up_process", p,
                 TASK_ALL, try_to_wake_up_success(World, p, TASK_ALL))

InitSingle ==
    Start(SingleBoot, [ticks |-> 0, forks |-> MaxForks, admin |-> 0, niffy |-> NiffySteps])

NextSingle ==
    \/ \E p \in UserTasks : TryToWakeUp(p)
    \/ \E p \in UserTasks : WakeUpProcessCall(p)
    \/ \E c \in CPUs, p \in UserTasks : SchedFork(c, p)
    \/ \E p \in UserTasks : WakeUpNewTask(p)
    \/ \E c \in CPUs : SetCurrentState(c)
    \/ \E c \in CPUs : Schedule(c)

SpecSingle == InitSingle /\ [][NextSingle]_vars

\* the only cpu runs its idle task and nothing is queued
SingleIdle == cpu_online_map = {0} /\ rq[0].curr = idle_of(0) /\ grq.qnr = 0

\* C21: with one cpu, idle and with an empty runqueue, wake_up_process() of a sleeping
\* SCHED_NORMAL task queues the task, counts it in nr_running and flags the idle task to
\* reschedule; the schedule() that follows makes the task the cpu's current task, unlinks
\* it and clears the cpu's bit in cpu_idle_map.
C21_IdleWake ==
    [][/\ (Called("wake_up_process") /\ SingleIdle /\ call'.ret = 1
              /\ task[call'.p].policy = SCHED_NORMAL)
          => /\ task_queued(WorldAfter, call'.p)
             /\ task'[call'.p].state = TASK_RUNNING
             /\ grq'.nr_running = grq.nr_running + 1
             /\ task'[idle_of(0)].need_resched
       /\ (call.op = "wake_up_process" /\ call.ret = 1 /\ last.op = "wake_up_process"
              /\ task[call.p].policy = SCHED_NORMAL
              /\ cpu_online_map = {0} /\ rq[0].curr = idle_of(0) /\ grq.qnr = 1
              /\ task_queued(World, call.p)
              /\ last'.op = "schedule")
          => /\ rq'[0].curr = call.p
             /\ ~task_queued(WorldAfter, call.p)
             /\ task'[call.p].oncpu
             /\ 0 \notin grq'.cpu_idle_map]_vars

C21_Witness ==
    /\ call.op = "wake_up_process" /\ call.ret = 1
    /\ last.op = "schedule"
    /\ cpu_online_map = {0}
    /\ rq[0].curr = call.p
    /\ task[call.p].policy = SCHED_NORMAL
    /\ 0 \notin grq.cpu_idle_map

(***************************************************************************)
(* Every cpu busy.  Cpu c runs user task NCPU + c, one more task sleeps.   *)
(* The cpus are of one node (locality 3) or share a cache (locality 2).    *)
(***************************************************************************)
Localities == {2, OtherCpuLocality}
BaseDeadline == prio_deadline_diff(USER_PRIO(NICE_TO_PRIO(0)))
RunDeadlines == {BaseDeadline, BaseDeadline + 2 * MS_TO_NS(1)}
Sleeper == NCPU + NCPU

RunningTask(c, deadline) ==
    [SleepingTask EXCEPT !.state = TASK_RUNNING, !.oncpu = TRUE, !.cpu = c, !.deadline = deadline]

\* dl: the deadline of each cpu's task; sleeper: the sleeping task
BusyBoot(locality, dl, sleeper) ==
    LET b == Boot(0)
        w1 == [b EXCEPT !.grq.nr_running = NCPU,
                        !.grq.cpu_idle_map = {},
                        !.grq.idle_cpus = FALSE,
                        !.task = [p \in Tasks |->
                                    IF p \in IdleTasks THEN [b.task[p] EXCEPT !.oncpu = FALSE]
                                    ELSE IF p - NCPU \in CPUs THEN RunningTask(p - NCPU, dl[p - NCPU])
                                    ELSE IF p = Sleeper THEN sleeper
                                    ELSE b.task[p]],
                        !.rq = [c \in CPUs |->
                                    [b.rq[c] EXCEPT !.curr = NCPU + c,
                                                    !.cpu_locality = [o \in CPUs |->
                                                        IF o = c THEN 0 ELSE locality]]]]
    IN  [w1 EXCEPT !.rq = [c \in CPUs |-> set_rq_task(w1, c, NCPU + c).rq[c]]]

\* a sleeping SCHED_NORMAL task whose deadline is 1 ms before the earliest running one
EarlySleeper(c) ==
    [SleepingTask EXCEPT !.cpu = c, !.deadline = BaseDeadline - MS_TO_NS(1)]

\* a sleeping SCHED_FIFO task of rt_priority 50 allowed on the cpus of mask
FifoSleeper(c, mask) ==
    [SleepingTask EXCEPT !.cpu = c, !.cpus_allowed = mask, !.policy = SCHED_FIFO,
                         !.rt_priority = 50, !.normal_prio = MAX_RT_PRIO - 1 - 50,
                         !.prio = MAX_RT_PRIO - 1 - 50]

InitPreempt ==
    \/ \E locality \in Localities, dl \in [CPUs -> RunDeadlines], c \in CPUs :
          Start(BusyBoot(locality, dl, EarlySleeper(c)),
                [ticks |-> 0, forks |-> 0, admin |-> 0, niffy |-> 0])
    \/ \E locality \in Localities, mask \in CpuMasks : \E c \in mask :
          Start(BusyBoot(locality, [o \in CPUs |-> BaseDeadline], FifoSleeper(c, mask)),
                [ticks |-> 0, forks |-> 0, admin |-> 0, niffy |-> 0])

\* arg: <<mode, wake_flags & WF_SYNC>>
DefaultWakeFunctionCall(p) ==
    /\ p \in LiveTasks
    /\ \E mode \in WakeMasks, sync \in BOOLEAN, rd \in ClockReads, sig \in Sigs(p) :
          Return(try_to_wake_up(World, p, mode, sync, rd, sig), "default_wake_function", p,
                 <<mode, sync>>, try_to_wake_up_success(World, p, mode))

NextPreempt ==
    \/ \E p \in UserTasks : WakeUpProcessCall(p)
    \/ \E p \in UserTasks : DefaultWakeFunctionCall(p)
    \/ \E c \in CPUs : Schedule(c)

SpecPreempt == InitPreempt /\ [][NextPreempt]_vars

\* the step is a successful wake_up_process() of a task allowed on every cpu, with every cpu
\* running a SCHED_NORMAL task of the same deadline, at the same cache distance from the
\* task's cpu, and the task's deadline before theirs
WakeOnEqualCpus ==
    /\ Called("wake_up_process") /\ call'.ret = 1
    /\ task[call'.p].policy = SCHED_NORMAL
    /\ task[call'.p].cpus_allowed = CPUs
    /\ cpu_online_map = CPUs
    /\ \A c \in CPUs :
          /\ rq[c].curr \in UserTasks
          /\ rq[c].rq_policy = SCHED_NORMAL /\ rq[c].rq_prio = NORMAL_PRIO
          /\ rq[c].rq_deadline = rq[0].rq_deadline
          /\ cache_distance(World, task[call'.p].cpu, c, call'.p)
                = cache_distance(World, task[call'.p].cpu, 0, call'.p)
          /\ ~task[rq[c].curr].need_resched
    /\ deadline_before(task[call'.p].deadline, rq[0].rq_deadline)

WakeFifoOnBusyCpus ==
    /\ call'.n = call.n + 1 /\ call'.op \in {"wake_up_process", "default_wake_function"}
    /\ call'.ret = 1
    /\ task[call'.p].policy = SCHED_FIFO /\ task[call'.p].rt_priority = 50
    /\ task[call'.p].cpus_allowed \cap cpu_online_map # {}
    /\ \A c \in CPUs : /\ rq[c].curr \in UserTasks
                       /\ task[rq[c].curr].policy = SCHED_NORMAL
                       /\ rq[c].rq_policy = SCHED_NORMAL

FlaggedInAffinity ==
    \E c \in task[call'.p].cpus_allowed \cap cpu_online_map : task'[rq'[c].curr].need_resched

\* C23 as the specification states it: every such wake flags a cpu of the task's affinity.
C23_Original ==
    [][WakeFifoOnBusyCpus => FlaggedInAffinity]_vars

\* C23: a wake that is not a sync wakeup (wake_up_process() is none) flags the current task
\* of a cpu of the woken task's affinity before it returns; a sync wakeup with no idle cpu
\* leaves every flag as it was.
C23_RtDominance ==
    [][WakeFifoOnBusyCpus
          => IF call'.op = "default_wake_function" /\ call'.arg[2]
             THEN \A p \in Tasks : task'[p].need_resched = task[p].need_resched
             ELSE FlaggedInAffinity]_vars

C23_Witness ==
    /\ call.op = "wake_up_process" /\ call.ret = 1
    /\ last.op = "wake_up_process"
    /\ task[call.p].policy = SCHED_FIFO /\ task[call.p].rt_priority = 50
    /\ task[call.p].cpus_allowed = {NCPU - 1}
    /\ task_queued(World, call.p)
    /\ \A c \in CPUs : rq[c].curr \in UserTasks /\ rq[c].rq_policy = SCHED_NORMAL
    /\ task[rq[NCPU - 1].curr].need_resched
    /\ ~task[rq[0].curr].need_resched

(***************************************************************************)
(* A running task is given an affinity that excludes its cpu.              *)
(***************************************************************************)
\* the step is a set_cpus_allowed_ptr() that succeeds for a task running on a cpu outside
\* the new mask
MovesRunningTask ==
    /\ Called("set_cpus_allowed_ptr") /\ call'.ret = 0
    /\ task_running(World, call'.p)
    /\ rq[task[call'.p].cpu].curr = call'.p
    /\ task[call'.p].cpu \notin call'.arg

\* the step is a schedule() on the cpu of the task that call names, still the cpu's current
\* task after a set_cpus_allowed_ptr() that took the cpu out of its affinity, and not exiting
SchedulesMovedTask ==
    /\ call.op = "set_cpus_allowed_ptr" /\ call.ret = 0
    /\ task[call.p].state # TASK_DEAD
    /\ task_running(World, call.p)
    /\ rq[task[call.p].cpu].curr = call.p
    /\ task[call.p].cpus_allowed = call.arg
    /\ task[call.p].cpu \notin call.arg
    /\ last' # last /\ last'.op = "schedule" /\ last'.cpu = task[call.p].cpu

MaxCompletes == 2
WQ_FLAG_EXCLUSIVE == 1

\* the states a wait sleeps in
WaitStates == {TASK_INTERRUPTIBLE, TASK_UNINTERRUPTIBLE}

Waiter(p, flags, state) == [private |-> p, flags |-> flags, state |-> state]
OnQueue(x, p) == \E i \in 1 .. Len(x.wait) : x.wait[i].private = p
remove_wait_queue(x, p) == [x EXCEPT !.wait = SelectSeq(@, LAMBDA e : e.private # p)]

\* every waiter is woken, exclusive or not
RECURSIVE wake_up_commonAll(_, _, _, _, _, _, _, _, _)
wake_up_commonAll(w, list, mode, nr_exclusive, sync, rd, sig, i, woken) ==
    IF i > Len(list) THEN [w |-> w, woken |-> woken, visited |-> Len(list)]
    ELSE LET curr == list[i].private
             ok == try_to_wake_up_success(w, curr, mode) = 1
         IN  wake_up_commonAll(try_to_wake_up(w, curr, mode, sync, rd, sig), list, mode,
                               nr_exclusive, sync, rd, sig, i + 1,
                               IF ok THEN Append(woken, curr) ELSE woken)

\* __wake_up_common() from the i-th waiter on; curr->func is default_wake_function()
RECURSIVE wake_up_common(_, _, _, _, _, _, _, _, _)
wake_up_common(w, list, mode, nr_exclusive, sync, rd, sig, i, woken) ==
    IF i > Len(list) THEN [w |-> w, woken |-> woken, visited |-> Len(list)]
    ELSE LET curr == list[i].private
             flags == list[i].flags
             ok == try_to_wake_up_success(w, curr, mode) = 1
             w1 == try_to_wake_up(w, curr, mode, sync, rd, sig)
             woken1 == IF ok THEN Append(woken, curr) ELSE woken
             counted == ok /\ flags = WQ_FLAG_EXCLUSIVE
             nr == IF counted THEN nr_exclusive - 1 ELSE nr_exclusive
         IN  IF counted /\ nr = 0
             THEN [w |-> w1, woken |-> woken1, visited |-> i]
             ELSE wake_up_common(w1, list, mode, nr, sync, rd, sig, i + 1, woken1)

CommitWait(w, x, op) ==
    /\ grq' = w.grq
    /\ task' = w.task
    /\ rq' = w.rq
    /\ cpu_online_map' = w.online
    /\ completion' = x
    /\ last' = [op |-> op, cpu |-> 0, p |-> NoTask]
    /\ UNCHANGED <<budget, call, locks>>

\* complete(x), from any context
Complete ==
    /\ completion.completes < MaxCompletes
    /\ \E rd \in ClockReads :
          LET x1 == [completion EXCEPT !.done = @ + 1, !.completes = @ + 1]
              r == wake_up_common(World, x1.wait, TASK_NORMAL, 1, FALSE, rd, FALSE, 1, <<>>)
          IN  CommitWait(r.w, x1, "complete")

\* __wake_up(&x->wait, mode, nr_exclusive, key), from any context
WakeUp ==
    \E mode \in WakeMasks, nr_exclusive \in 1 .. 2, rd \in ClockReads :
        LET r == wake_up_common(World, completion.wait, mode, nr_exclusive, FALSE, rd, FALSE,
                                1, <<>>)
        IN  /\ r.woken # <<>>
            /\ CommitWait(r.w, completion, "__wake_up")

\* the task running on c is in none of the waits
Outside(c) ==
    /\ Executing(c)
    /\ rq[c].curr \in LiveTasks
    /\ task[rq[c].curr].state = TASK_RUNNING
    /\ ~OnQueue(completion, rq[c].curr)

\* do_wait_for_common() up to its first schedule_timeout(), or to its return
WaitForCommon(c) ==
    /\ Outside(c)
    /\ \E state \in WaitStates, sig \in BOOLEAN :
          LET p == rq[c].curr
              x == completion
          IN  IF x.done = 0
              THEN IF signal_pending_state(state, sig)
                   THEN CommitWait(World, x, "wait_for_common")
                   ELSE CommitWait([World EXCEPT !.task[p].state = state],
                                   [x EXCEPT !.wait = Append(@, Waiter(p, WQ_FLAG_EXCLUSIVE,
                                                                       state))],
                                   "schedule_timeout")
              ELSE CommitWait(World, [x EXCEPT !.done = @ - 1, !.returned = @ + 1],
                              "wait_for_common")

\* the waiter of the task running on c
WaiterOf(c) == CHOOSE e \in {completion.wait[i] : i \in 1 .. Len(completion.wait)} :
                  e.private = rq[c].curr

\* the task running on c is on the queue and has been woken
Woken(c) ==
    /\ Executing(c)
    /\ rq[c].curr \in LiveTasks
    /\ OnQueue(completion, rq[c].curr)
    /\ task[rq[c].curr].state = TASK_RUNNING

\* do_wait_for_common() from the return of schedule_timeout() to the next one, or to its
\* return; timeout is what schedule_timeout() returned
ScheduleTimeoutReturn(c) ==
    /\ Woken(c)
    /\ WaiterOf(c).flags = WQ_FLAG_EXCLUSIVE
    /\ \E timeout \in {0, 1}, sig \in BOOLEAN :
          LET p == rq[c].curr
              x == completion
              state == WaiterOf(c).state
          IN  IF x.done = 0 /\ timeout # 0
              THEN IF signal_pending_state(state, sig)
                   THEN CommitWait(World, remove_wait_queue(x, p), "wait_for_common")
                   ELSE CommitWait([World EXCEPT !.task[p].state = state], x,
                                   "schedule_timeout")
              ELSE IF x.done = 0
                   THEN CommitWait(World, remove_wait_queue(x, p), "wait_for_common")
                   ELSE CommitWait(World, [remove_wait_queue(x, p) EXCEPT !.done = @ - 1,
                                                                           !.returned = @ + 1],
                                   "wait_for_common")

\* done is decremented without a look at it
try_wait_for_completionBlind(x) == [x EXCEPT !.done = @ - 1, !.returned = @ + 1]

try_wait_for_completion(x) ==
    IF x.done = 0 THEN x ELSE [x EXCEPT !.done = @ - 1, !.returned = @ + 1]

TryWaitForCompletion(c) ==
    /\ Outside(c)
    /\ CommitWait(World, try_wait_for_completion(completion), "try_wait_for_completion")

\* sleep_on_common() up to its schedule_timeout()
SleepOnCommon(c) ==
    /\ Outside(c)
    /\ \E state \in WaitStates :
          LET p == rq[c].curr
          IN  CommitWait([World EXCEPT !.task[p].state = state],
                         [completion EXCEPT !.wait = <<Waiter(p, 0, state)>> \o @],
                         "sleep_on_common")

\* sleep_on_common() from the return of schedule_timeout()
SleepOnReturn(c) ==
    /\ Woken(c)
    /\ WaiterOf(c).flags = 0
    /\ CommitWait(World, remove_wait_queue(completion, rq[c].curr), "sleep_on_common")

\* the timer of a schedule_timeout() expires
ProcessTimeout(p) ==
    /\ p \in LiveTasks
    /\ OnQueue(completion, p)
    /\ \E rd \in ClockReads :
          Commit(try_to_wake_up(World, p, TASK_ALL, FALSE, rd, FALSE), "wake_up_process",
                 task[p].cpu, p)
    /\ UNCHANGED budget

\* schedule() called by the task itself, the cpu within half a jiffy of its tick
ScheduleCall(c) ==
    /\ Executing(c)
    /\ rq[c].curr = idle_of(c) => task[idle_of(c)].need_resched
    /\ \E sig \in Sigs(rq[c].curr), rd \in ClockReads :
          Commit(schedule(World, c, FALSE, sig, rd, 0, FALSE), "schedule", c, rq[c].curr)
    /\ UNCHANGED budget

InitCompletion ==
    Start(BusyBoot(OtherCpuLocality, [o \in CPUs |-> BaseDeadline], FreeTask),
          [ticks |-> 0, forks |-> 0, admin |-> 0, niffy |-> 0])

NextCompletion ==
    \/ Complete
    \/ WakeUp
    \/ \E c \in CPUs : WaitForCommon(c)
    \/ \E c \in CPUs : ScheduleTimeoutReturn(c)
    \/ \E c \in CPUs : TryWaitForCompletion(c)
    \/ \E c \in CPUs : SleepOnCommon(c)
    \/ \E c \in CPUs : SleepOnReturn(c)
    \/ \E p \in UserTasks : ProcessTimeout(p)
    \/ \E c \in CPUs : ScheduleCall(c)

SpecCompletion == InitCompletion /\ [][NextCompletion]_vars

\* C25: the waits that have returned success never outnumber the complete() calls, done is
\* the difference of the two, and a wait that returns success takes exactly one from done.
C25_Counting ==
    [][/\ completion'.returned <= completion'.completes
       /\ completion'.done = completion'.completes - completion'.returned
       /\ completion'.returned # completion.returned
             => /\ completion'.returned = completion.returned + 1
                /\ completion'.done = completion.done - 1
                /\ completion.done > 0]_vars

C25_Witness ==
    /\ completion.completes = MaxCompletes
    /\ completion.returned = MaxCompletes
    /\ completion.done = 0
    /\ last.op = "wait_for_common"
    /\ completion.wait # <<>>

\* the exclusive waiters among the first n of list whose task is in woken
ExclusiveWoken(list, woken, n) ==
    {i \in 1 .. n : list[i].flags = WQ_FLAG_EXCLUSIVE /\ InSeq(woken, list[i].private)}

\* C26: a walk of the wait queue with nr_exclusive = k > 0 wakes at most k exclusive
\* waiters; it ends at the k-th exclusive waiter whose wake function returns nonzero and
\* leaves the tasks of the waiters behind it as they were, and it visits the whole queue
\* when fewer than k are woken.
C26_ExclusiveBudget ==
    \A mode \in WakeMasks, k \in 1 .. 2, rd \in ClockReads :
        LET list == completion.wait
            r == wake_up_common(World, list, mode, k, FALSE, rd, FALSE, 1, <<>>)
            n == Cardinality(ExclusiveWoken(list, r.woken, Len(list)))
        IN  /\ n <= k
            /\ n = k => /\ r.visited \in ExclusiveWoken(list, r.woken, Len(list))
                        /\ \A i \in (r.visited + 1) .. Len(list) :
                              r.w.task[list[i].private] = task[list[i].private]
            /\ n < k => r.visited = Len(list)
            /\ \A i \in 1 .. Len(r.woken) : r.w.task[r.woken[i]].state = TASK_RUNNING

\* complete() has woken the first of two sleeping exclusive waiters and left the second
C26_Witness ==
    /\ last.op = "complete"
    /\ Len(completion.wait) = 2
    /\ \A i \in 1 .. 2 : completion.wait[i].flags = WQ_FLAG_EXCLUSIVE
    /\ task[completion.wait[1].private].state = TASK_RUNNING
    /\ task_queued(World, completion.wait[1].private)
    /\ task[completion.wait[2].private].state # TASK_RUNNING
    /\ ~task_running(World, completion.wait[2].private)

(***************************************************************************)
(* What the tick writes and the locks it takes, branch by branch.          *)
(***************************************************************************)
\* no_iso_tick() takes grq.iso_lock when iso_ticks is not 0
no_iso_tick_path(w) == IF w.grq.iso_ticks # 0 THEN grq_iso_lock_path ELSE <<>>

\* the tick returns before it reaches grq_lock()
task_running_tick_returns(w, cpu) ==
    \/ w.rq[cpu].rq_policy = SCHED_FIFO
    \/ w.rq[cpu].dither /\ w.rq[cpu].rq_time_slice > HALF_JIFFY_US
    \/ ~w.rq[cpu].dither /\ w.rq[cpu].rq_time_slice >= RESCHED_US

\* grq_lock() is never called
task_running_tick_pathNoGrq(w, cpu) ==
    IF rt_queue(w, cpu) \/ (iso_queue(w, cpu) /\ ~w.grq.iso_refractory)
    THEN IF w.grq.iso_ticks <= (ISO_PERIOD(w) * 100) - 100 THEN grq_iso_lock_path ELSE <<>>
    ELSE no_iso_tick_path(w)

task_running_tick_path(w, cpu) ==
    LET iso == IF rt_queue(w, cpu) \/ (iso_queue(w, cpu) /\ ~w.grq.iso_refractory)
               THEN IF w.grq.iso_ticks <= (ISO_PERIOD(w) * 100) - 100
                    THEN grq_iso_lock_path ELSE <<>>
               ELSE no_iso_tick_path(w)
    IN  IF task_running_tick_returns(task_running_tick_iso(w, cpu), cpu) THEN iso
        ELSE iso \o grq_lock_path

scheduler_tick_path(w, cpu, time_diff) ==
    LET w1 == update_cpu_clock(w, cpu, w.rq[cpu].curr, time_diff)
    IN  IF ~rq_idle(w1, cpu) THEN task_running_tick_path(w1, cpu) ELSE no_iso_tick_path(w1)

\* w1 differs from w in nothing but cpu's rq, the ISO counters and the need_resched flag of
\* cpu's current task
TickFrame(w, w1, cpu) ==
    /\ w1.online = w.online
    /\ [w1.grq EXCEPT !.iso_ticks = 0, !.iso_refractory = FALSE]
          = [w.grq EXCEPT !.iso_ticks = 0, !.iso_refractory = FALSE]
    /\ \A o \in CPUs \ {cpu} : w1.rq[o] = w.rq[o]
    /\ w1.rq[cpu].curr = w.rq[cpu].curr
    /\ \A p \in Tasks :
          [w1.task[p] EXCEPT !.need_resched = FALSE] = [w.task[p] EXCEPT !.need_resched = FALSE]
    /\ \A p \in Tasks \ {w.rq[cpu].curr} : w1.task[p] = w.task[p]

Calling(a) ==
    /\ budget.admin > 0
    /\ Executing(a)
    /\ rq[a].curr \in LiveTasks
    /\ task[rq[a].curr].state = TASK_RUNNING

SetUserNiceFrom(a, p) ==
    /\ Calling(a)
    /\ p \in LiveTasks
    /\ \E nice \in Nices, rd \in ClockReads, sig \in Sigs(p) :
          Commit(set_user_nice(World, p, nice, rd, sig), "set_user_nice", a, p)
    /\ budget' = [budget EXCEPT !.admin = @ - 1]

SchedSetschedulerFrom(a, p) ==
    /\ Calling(a)
    /\ p \in LiveTasks
    /\ \E policy \in PolicyInputs, rof \in BOOLEAN, prio \in RtPrios, perm \in PermInputs,
          rd \in ClockReads, sig \in Sigs(p) :
          LET chk == setscheduler_checks(World, p, policy, rof, prio, perm[1], perm[2],
                                         perm[3], perm[4], TRUE)
          IN  Commit(sched_setscheduler(World, p, chk, rd, MAX_PRIO, sig),
                     "sched_setscheduler", a, p)
    /\ budget' = [budget EXCEPT !.admin = @ - 1]

InitRemote ==
    \E c \in CPUs :
        Start(BusyBoot(OtherCpuLocality, [o \in CPUs |-> BaseDeadline], EarlySleeper(c)),
              [ticks |-> MaxTicks, forks |-> 0, admin |-> MaxAdmin, niffy |-> 0])

NextRemote ==
    \/ \E a \in CPUs, p \in UserTasks : SetUserNiceFrom(a, p)
    \/ \E a \in CPUs, p \in UserTasks : SchedSetschedulerFrom(a, p)
    \/ \E c \in CPUs : Schedule(c)
    \/ \E c \in CPUs : SchedulerTick(c)

SpecRemote == InitRemote /\ [][NextRemote]_vars

\* the fields of the rq that mirror its current task
Projection(r) == <<r.rq_time_slice, r.rq_deadline, r.rq_prio, r.rq_policy>>

DeadlineStep == 10
QueuedDeadlines == {BaseDeadline, BaseDeadline + DeadlineStep}
\* <<policy, rt_priority>>
QueuedKinds == {<<SCHED_FIFO, 50>>, <<SCHED_FIFO, 10>>, <<SCHED_ISO, 0>>, <<SCHED_NORMAL, 0>>}
\* <<cpus_allowed, cpu>>
QueuedPlaces == {<<CPUs, 0>>, <<CPUs, NCPU - 1>>, <<{NCPU - 1}, NCPU - 1>>}

Sleeping(kind, deadline, place) ==
    LET np == IF kind[1] = SCHED_FIFO THEN MAX_RT_PRIO - 1 - kind[2]
              ELSE IF kind[1] = SCHED_ISO THEN ISO_PRIO ELSE NORMAL_PRIO
    IN  [SleepingTask EXCEPT !.policy = kind[1], !.rt_priority = kind[2],
                             !.normal_prio = np, !.prio = np, !.deadline = deadline,
                             !.cpus_allowed = place[1], !.cpu = place[2]]

\* the tasks of sl asleep, then woken in the order of their numbers
RECURSIVE WakeAll(_, _)
WakeAll(w, p) ==
    IF p > NTASK + NCPU - 1 THEN w
    ELSE WakeAll(try_to_wake_up(w, p, TASK_ALL, FALSE, <<0 - JIFFY_NS, 0>>, FALSE), p + 1)

QueuedBoot(sl) ==
    LET b == Boot(0)
    IN  WakeAll([b EXCEPT !.task = [p \in Tasks |-> IF p \in UserTasks THEN sl[p] ELSE @[p]]],
                NCPU)

InitQueued ==
    \E kind \in [UserTasks -> QueuedKinds], deadline \in [UserTasks -> QueuedDeadlines],
       place \in [UserTasks -> QueuedPlaces] :
        /\ place[NCPU] = <<CPUs, 0>>
        /\ deadline[NCPU] = BaseDeadline
        /\ Start(QueuedBoot([p \in UserTasks |-> Sleeping(kind[p], deadline[p], place[p])]),
                 [ticks |-> 0, forks |-> 0, admin |-> 0, niffy |-> 0])

NextQueued == \E c \in CPUs : ScheduleCall(c)

SpecQueued == InitQueued /\ [][NextQueued]_vars

\* the positions in band b of the tasks allowed on cpu
Eligible(b, cpu) ==
    {i \in 1 .. Len(grq.queue[b]) : cpu \in task[grq.queue[b][i]].cpus_allowed}
EligibleBands(cpu, from) == {b \in Bands : b >= from /\ Eligible(b, cpu) # {}}
\* the deadline of a queued task as cpu sees it
SeenDeadline(p, cpu) == task[p].deadline + cache_distance(World, task[p].cpu, cpu, p)

\* C29: when the lowest band with a task allowed on the cpu is an rt band,
\* earliest_deadline_task() returns the first such task of that band, whatever the
\* deadlines are.
C29_RtFirstQueued ==
    \A cpu \in CPUs :
        (EligibleBands(cpu, 0) # {} /\ Min(EligibleBands(cpu, 0)) < MAX_RT_PRIO)
           => LET b == Min(EligibleBands(cpu, 0))
              IN  edt_choice(World, cpu, idle_of(cpu)) = grq.queue[b][Min(Eligible(b, cpu))]

\* a cpu has taken the first of two rt tasks of one band though the second, allowed on the
\* cpu as well, has the earlier deadline
C29_Witness ==
    /\ last.op = "schedule"
    /\ rq[last.cpu].curr \in UserTasks
    /\ task[rq[last.cpu].curr].policy = SCHED_FIFO
    /\ \E q \in UserTasks :
          /\ task_queued(World, q)
          /\ task[q].prio = task[rq[last.cpu].curr].prio
          /\ last.cpu \in task[q].cpus_allowed
          /\ task[q].deadline < task[rq[last.cpu].curr].deadline

\* C30: when no rt task allowed on the cpu is queued, earliest_deadline_task() returns a
\* task of the lowest band with a task allowed on the cpu, allowed on the cpu, whose
\* deadline plus cache distance to the cpu is minimal among such tasks of that band, and
\* among those of minimal value the first queued.
C30_EarliestSeenDeadline ==
    \A cpu \in CPUs :
        (EligibleBands(cpu, 0) # {} /\ Min(EligibleBands(cpu, 0)) >= MAX_RT_PRIO)
           => LET b == Min(EligibleBands(cpu, 0))
                  t == edt_choice(World, cpu, idle_of(cpu))
              IN  \E i \in Eligible(b, cpu) :
                     /\ grq.queue[b][i] = t
                     /\ \A j \in Eligible(b, cpu) :
                           /\ SeenDeadline(t, cpu) <= SeenDeadline(grq.queue[b][j], cpu)
                           /\ j < i => SeenDeadline(t, cpu) < SeenDeadline(grq.queue[b][j], cpu)

\* a cpu has taken a task over one of the same band, allowed on the cpu, whose own deadline
\* is earlier but which last ran on the other cpu
C30_Witness ==
    /\ last.op = "schedule"
    /\ rq[last.cpu].curr \in UserTasks
    /\ task[rq[last.cpu].curr].policy = SCHED_NORMAL
    /\ \A q \in UserTasks : task[q].policy # SCHED_FIFO
    /\ \E q \in UserTasks :
          /\ task_queued(World, q)
          /\ task[q].prio = task[rq[last.cpu].curr].prio
          /\ last.cpu \in task[q].cpus_allowed
          /\ task[q].cpu # last.cpu
          /\ task[q].deadline < task[rq[last.cpu].curr].deadline

(***************************************************************************)
(* The selector when nothing queued may run on the cpu.                    *)
(***************************************************************************)
\* how often earliest_deadline_task() passes its retry label, from idx0 on
RECURSIVE edt_passes(_, _, _, _)
edt_passes(w, cpu, idx0, idletask) ==
    LET idx == find_next_bit(w.grq.prio_bitmap, PRIO_LIMIT, idx0)
    IN  IF idx >= PRIO_LIMIT THEN 1
        ELSE LET r == scan_band(w, cpu, idx, 1, idletask, 0, idletask)
             IN  IF ~r[3] /\ r[1] = idletask /\ idx + 1 < PRIO_LIMIT
                 THEN 1 + edt_passes(w, cpu, idx + 1, idletask)
                 ELSE 1

NoneAllowed(cpu) ==
    \A b \in Bands : \A i \in 1 .. Len(grq.queue[b]) :
        needs_other_cpu(World, grq.queue[b][i], cpu)

\* C31: earliest_deadline_task() passes its retry label at most once for every band in
\* use and once more, and when every queued task is barred from the cpu it returns the
\* cpu's idle task and leaves the queues, the bitmap, qnr and the tasks as they were.
C31_IdleWhenNoneAllowed ==
    \A cpu \in CPUs :
        /\ edt_passes(World, cpu, 0, idle_of(cpu)) <= Cardinality(grq.prio_bitmap) + 1
        /\ NoneAllowed(cpu)
              => /\ edt_choice(World, cpu, idle_of(cpu)) = idle_of(cpu)
                 /\ earliest_deadline_task(World, cpu, idle_of(cpu)) = World

\* a cpu has been through schedule() and runs its idle task while tasks wait in two bands,
\* all of them bound to the other cpu
C31_Witness ==
    /\ last.op = "schedule"
    /\ rq[last.cpu].curr = idle_of(last.cpu)
    /\ Cardinality(grq.prio_bitmap) = 2
    /\ grq.qnr = 2
    /\ NoneAllowed(last.cpu)

(***************************************************************************)
(* Every cpu busy, a SCHED_FIFO task of rt_priority 10 asleep, and one     *)
(* priority-inheritance change of a task.                                  *)
(***************************************************************************)
LowFifoSleeper(c, mask) ==
    [FifoSleeper(c, mask) EXCEPT !.rt_priority = 10, !.normal_prio = MAX_RT_PRIO - 1 - 10,
                                 !.prio = MAX_RT_PRIO - 1 - 10]

InitBoost ==
    \E mask \in CpuMasks : \E c \in mask :
        Start(BusyBoot(OtherCpuLocality, [o \in CPUs |-> BaseDeadline], LowFifoSleeper(c, mask)),
              [ticks |-> 0, forks |-> 0, admin |-> MaxAdmin, niffy |-> 0])

NextBoost ==
    \/ \E p \in UserTasks : RtMutexSetprio(p)
    \/ \E p \in UserTasks : WakeUpProcessCall(p)
    \/ \E c \in CPUs : Schedule(c)

SpecBoost == InitBoost /\ [][NextBoost]_vars

\* the step is a successful wake_up_process() of a task none of whose cpus is idle
WakeOnBusyCpus ==
    /\ Called("wake_up_process") /\ call'.ret = 1
    /\ ~suitable_idle_cpus(World, call'.p)

\* the cpus whose current task the step flags
NewlyFlagged ==
    {c \in CPUs : ~task[rq[c].curr].need_resched /\ task'[rq[c].curr].need_resched}

\* C32: a wake-up that finds no cpu of the task idle sets TIF_NEED_RESCHED on the current
\* task of a cpu only if the woken task's priority is strictly better (lower) than that
\* task's, or equal with a strictly earlier deadline.
C32_StrictlyBetter ==
    [][WakeOnBusyCpus =>
          \A c \in NewlyFlagged :
              \/ task'[call'.p].prio < task[rq[c].curr].prio
              \/ /\ task'[call'.p].prio = task[rq[c].curr].prio
                 /\ task'[call'.p].deadline < task[rq[c].curr].deadline]_vars

\* the same with the priority and the deadline the cpu's rq holds for its task
WakeBetterThanRqFields ==
    [][WakeOnBusyCpus =>
          \A c \in NewlyFlagged :
              \/ task'[call'.p].prio < rq[c].rq_prio
              \/ /\ task'[call'.p].prio = rq[c].rq_prio
                 /\ task'[call'.p].deadline < rq[c].rq_deadline]_vars

(***************************************************************************)
(* The band enqueue_task() links a task into.                              *)
(***************************************************************************)
\* the band the policy alone asks for; sig as in idleprio_suitable()
PolicyBand(p, sig) ==
    IF task[p].policy = SCHED_IDLEPRIO /\ ~sig /\ ~task_contributes_to_load(World, p)
    THEN IDLE_PRIO
    ELSE IF task[p].policy = SCHED_ISO /\ ~grq.iso_refractory THEN ISO_PRIO
    ELSE NORMAL_PRIO

\* the world after enqueue_task(p) for a task off the queue, or after the dequeue_task(p)
\* and enqueue_task(p) of a handler that relinks a queued task
Enqueued(p, sig) ==
    enqueue_task(IF task_queued(World, p) THEN dequeue_task(World, p) ELSE World, p, sig)

\* C33: enqueue_task() links a task whose prio is not a realtime one (by policy or by
\* priority inheritance) into one band only, once: IDLE_PRIO when its policy is
\* SCHED_IDLEPRIO and idleprio_suitable() holds, else ISO_PRIO when its policy is SCHED_ISO
\* and grq.iso_refractory is clear, else NORMAL_PRIO; the bit of that band is set and the
\* task's prio is that band.
C33_EnqueueBand ==
    \A p \in LiveTasks, sig \in BOOLEAN :
        ~rt_task(World, p)
           => LET w1 == Enqueued(p, sig)
                  b == PolicyBand(p, sig)
              IN  /\ \A o \in Bands : InSeq(w1.grq.queue[o], p) <=> o = b
                  /\ Len(SelectSeq(w1.grq.queue[b], LAMBDA t : t = p)) = 1
                  /\ b \in w1.grq.prio_bitmap
                  /\ w1.task[p].prio = b

\* a SCHED_ISO task is queued in the NORMAL_PRIO band while grq.iso_refractory is set
C33_Witness ==
    /\ grq.iso_refractory
    /\ \E p \in LiveTasks :
          /\ task[p].policy = SCHED_ISO
          /\ ~rt_task(World, p)
          /\ InSeq(grq.queue[NORMAL_PRIO], p)
          /\ task[p].normal_prio = ISO_PRIO

(***************************************************************************)
(* The tick's ISO accounting, one lock call at a time.  scheduler_tick()   *)
(* runs without grq.lock: task_running_tick() and no_iso_tick() read       *)
(* grq.iso_ticks before they take grq.iso_lock and change it under the     *)
(* lock.  locks[c].todo holds what cpu c has left to do in its tick.       *)
(***************************************************************************)
InLock(a) == <<Lock("iso_lock"), [a |-> a, l |-> "iso_lock"], Unlock("iso_lock")>>
TickRest == <<[a |-> "return", l |-> "none"]>>

\* iso_ticks is an int: the quotient is truncated toward zero
int_div(a, b) == IF a >= 0 THEN a \div b ELSE 0 - ((0 - a) \div b)

\* no_iso_tick() between grq_iso_lock() and grq_iso_unlock()
no_iso_tick_locked(w) ==
    LET t == w.grq.iso_ticks - (int_div(w.grq.iso_ticks, ISO_PERIOD(w)) + 1)
    IN  [w EXCEPT !.grq.iso_ticks = t,
                  !.grq.iso_refractory =
                      IF @ /\ t < ISO_PERIOD(w) * ((sched_iso_cpu * 115) \div 128)
                      THEN FALSE ELSE @]

\* the tests scheduler_tick() makes before any lock is taken, as what is left to do
tick_todo(w, cpu) ==
    IF rq_idle(w, cpu)
    THEN IF w.grq.iso_ticks # 0 THEN InLock("no_iso_tick") ELSE <<>>
    ELSE (IF rt_queue(w, cpu) \/ (iso_queue(w, cpu) /\ ~w.grq.iso_refractory)
          THEN IF w.grq.iso_ticks <= (ISO_PERIOD(w) * 100) - 100 THEN InLock("iso_tick") ELSE <<>>
          ELSE IF w.grq.iso_ticks # 0 THEN InLock("no_iso_tick") ELSE <<>>) \o TickRest

\* task_running_tick() from the second test of iso_queue() on
task_running_tick_rest(w, cpu) ==
    LET w2 == IF iso_queue(w, cpu) THEN test_ret_isorefractory(w) ELSE w
        w3 == IF iso_queue(w2, cpu) /\ w2.grq.iso_refractory /\ rq_running_iso(w2, cpu)
              THEN [w2 EXCEPT !.rq[cpu].rq_time_slice = 0] ELSE w2
    IN  IF w3.rq[cpu].rq_policy = SCHED_FIFO THEN w3
        ELSE IF w3.rq[cpu].dither /\ w3.rq[cpu].rq_time_slice > HALF_JIFFY_US THEN w3
        ELSE IF ~w3.rq[cpu].dither /\ w3.rq[cpu].rq_time_slice >= RESCHED_US THEN w3
        ELSE set_tsk_need_resched(
                 [w3 EXCEPT !.rq[cpu].rq_time_slice = IF w3.rq[cpu].dither THEN 0 ELSE @],
                 w3.rq[cpu].curr)

\* a step of cpu c inside its tick that leaves the world as w
TickStep(w, c, todo) ==
    /\ grq' = w.grq
    /\ task' = w.task
    /\ rq' = w.rq
    /\ locks' = [locks EXCEPT ![c].todo = todo]
    /\ last' = [op |-> "scheduler_tick", cpu |-> c, p |-> rq[c].curr]
    /\ UNCHANGED <<cpu_online_map, call, completion>>

\* the timer interrupt arrives on cpu c
TickEnter(c) ==
    /\ budget.ticks > 0
    /\ locks[c].todo = <<>>
    /\ \E time_diff \in TimeDiffs :
          LET w1 == update_cpu_clock(World, c, rq[c].curr, time_diff)
          IN  TickStep(w1, c, tick_todo(w1, c))
    /\ budget' = [budget EXCEPT !.ticks = @ - 1]

IsoTickLocked(c) ==
    /\ locks[c].todo # <<>>
    /\ Head(locks[c].todo).a = "iso_tick"
    /\ TickStep(iso_tick(World), c, Tail(locks[c].todo))
    /\ UNCHANGED budget

NoIsoTickLocked(c) ==
    /\ locks[c].todo # <<>>
    /\ Head(locks[c].todo).a = "no_iso_tick"
    /\ TickStep(no_iso_tick_locked(World), c, Tail(locks[c].todo))
    /\ UNCHANGED budget

TickReturn(c) ==
    /\ locks[c].todo # <<>>
    /\ Head(locks[c].todo).a = "return"
    /\ TickStep(task_running_tick_rest(World, c), c, Tail(locks[c].todo))
    /\ UNCHANGED budget

\* grq.iso_ticks one decay above zero, and one RT tick below its cap
IsoEdges == {1, (ISO_PERIOD(Boot(0)) * 100) - 100}
TickPolicies == {SCHED_NORMAL, SCHED_FIFO}

\* every cpu busy; the tasks given their policies by sched_setscheduler()
RECURSIVE SetPolicies(_, _, _)
SetPolicies(w, policy, c) ==
    IF c >= NCPU THEN w
    ELSE SetPolicies(IF policy[c] = SCHED_FIFO
                     THEN sched_setscheduler(w, NCPU + c, <<"OK", SCHED_FIFO, 50, FALSE>>,
                                             <<0 - JIFFY_NS, 0>>, MAX_PRIO, FALSE)
                     ELSE w, policy, c + 1)

IsoTickBoot(it, policy) ==
    LET w == SetPolicies(BusyBoot(OtherCpuLocality, [o \in CPUs |-> BaseDeadline], FreeTask),
                         policy, 0)
    IN  [w EXCEPT !.grq.iso_ticks = it]

InitIsoTick ==
    \E it \in IsoEdges, policy \in [CPUs -> TickPolicies] :
        Start(IsoTickBoot(it, policy), [ticks |-> MaxTicks, forks |-> 0, admin |-> 0, niffy |-> 0])

NextIsoTick ==
    \/ \E c \in CPUs : TickEnter(c)
    \/ \E c \in CPUs : AcquireLock(c)
    \/ \E c \in CPUs : IsoTickLocked(c)
    \/ \E c \in CPUs : NoIsoTickLocked(c)
    \/ \E c \in CPUs : ReleaseLock(c)
    \/ \E c \in CPUs : TickReturn(c)

SpecIsoTick == InitIsoTick /\ [][NextIsoTick]_vars

\* C34: grq.iso_ticks is at least 0 and at most ISO_PERIOD * 100 in every state, the ticks
\* of the cpus interleaving at their lock calls.
C34_IsoTicksRange == grq.iso_ticks >= 0 /\ grq.iso_ticks <= ISO_PERIOD(World) * 100

(***************************************************************************)
(* update_clocks() with a clock difference that is not trusted.            *)
(***************************************************************************)
Untrusted(ndiff, jdiff) == ndiff < 1 \/ ndiff > JIFFIES_TO_NS(jdiff + 1)

\* C35: when the difference update_clocks() computes is below 1 or above
\* JIFFIES_TO_NS(jdiff + 1), the call adds exactly 1000 ns to grq.niffies.
C35_ClampMicrosecond ==
    \A ndiff \in RawDiffs, jdiff \in JiffDiffs :
        Untrusted(ndiff, jdiff)
           => update_clocks(World, ndiff, jdiff).grq.niffies = grq.niffies + 1000

(***************************************************************************)
(* Sync wake-ups.  Cpu 0 is busy; the last cpu is busy too, or its task    *)
(* has gone to sleep and the cpu runs its idle task.                       *)
(***************************************************************************)
\* the task of the last cpu sets TASK_INTERRUPTIBLE and calls schedule()
HalfBusyBoot(sleeper) ==
    LET b == BusyBoot(OtherCpuLocality, [o \in CPUs |-> BaseDeadline], sleeper)
        c == NCPU - 1
    IN  schedule([b EXCEPT !.task[NCPU + c].state = TASK_INTERRUPTIBLE], c, FALSE, FALSE,
                 <<0 - JIFFY_NS, 0>>, 0, FALSE)

InitSync ==
    \E mask \in CpuMasks, half \in BOOLEAN : \E c \in mask :
        \E sleeper \in {FifoSleeper(c, mask), [EarlySleeper(c) EXCEPT !.cpus_allowed = mask]} :
            Start(IF half THEN HalfBusyBoot(sleeper)
                  ELSE BusyBoot(OtherCpuLocality, [o \in CPUs |-> BaseDeadline], sleeper),
                  [ticks |-> 0, forks |-> 0, admin |-> 0, niffy |-> 0])

NextSync ==
    \/ \E p \in UserTasks : DefaultWakeFunctionCall(p)
    \/ \E c \in CPUs : Schedule(c)

SpecSync == InitSync /\ [][NextSync]_vars

\* the step is a wake-up through default_wake_function() with WF_SYNC set
SyncWake == Called("default_wake_function") /\ call'.arg[2]

\* C36: a wake-up with WF_SYNC sets TIF_NEED_RESCHED only on the idle task of a cpu that is
\* in cpu_idle_map and in the woken task's cpus_allowed; with no such cpu it sets the flag
\* of no task, whatever the cpus are running.
C36_SyncOnlyIdle ==
    [][SyncWake =>
          /\ \A c \in NewlyFlagged :
                /\ rq[c].curr = idle_of(c)
                /\ c \in grq.cpu_idle_map \cap task[call'.p].cpus_allowed
          /\ \A q \in Tasks : task'[q].need_resched => task[q].need_resched \/ q \in IdleTasks]_vars

\* a sync wake-up has queued a SCHED_FIFO task allowed on cpu 0, no cpu of the task is idle,
\* and the SCHED_NORMAL task running on cpu 0 is not flagged
C36_Witness ==
    /\ call.op = "default_wake_function" /\ call.arg[2] /\ call.ret = 1
    /\ task[call.p].policy = SCHED_FIFO
    /\ task_queued(World, call.p)
    /\ 0 \in task[call.p].cpus_allowed
    /\ ~suitable_idle_cpus(World, call.p)
    /\ rq[0].curr \in UserTasks
    /\ task[rq[0].curr].policy = SCHED_NORMAL
    /\ ~task[rq[0].curr].need_resched

(***************************************************************************)
(* resched_best_idle() for a task with an idle cpu in its affinity.        *)
(***************************************************************************)
\* the cpus resched_best_idle(p) chooses from
IdleCandidates(p) == task[p].cpus_allowed \cap grq.cpu_idle_map

\* how often the do-while loop of resched_best_idle() runs its body
RECURSIVE best_idle_passes(_, _, _, _, _, _)
best_idle_passes(w, tmpmask, src, cpu_tmp0, iterate, best_ranking) ==
    LET n1 == next_cpu(cpu_tmp0, tmpmask)
        cpu_tmp == IF n1 >= nr_cpu_ids THEN next_cpu(ulong(0 - 1), tmpmask) ELSE n1
        ranking == IF cpu_locality(w, src, cpu_tmp) > 2 THEN CPUIDLE_DIFF_CPU ELSE 0
    IN  IF (ranking < best_ranking /\ ranking = 0) \/ iterate - 1 <= 0 THEN 1
        ELSE 1 + best_idle_passes(w, tmpmask, src, cpu_tmp, iterate - 1,
                                  IF ranking < best_ranking THEN ranking ELSE best_ranking)

InitCurr ==
    Start(BusyBoot(OtherCpuLocality, [o \in CPUs |-> BaseDeadline], FreeTask),
          [ticks |-> 0, forks |-> 0, admin |-> MaxAdmin, niffy |-> 0])

NextCurr ==
    \/ \E p \in UserTasks : TryToWakeUp(p)
    \/ \E c \in CPUs : SetCurrentState(c)
    \/ \E c \in CPUs : ScheduleCall(c)
    \/ \E p \in UserTasks : SetCpusAllowedPtr(p)
    \/ \E p \in UserTasks : RtMutexSetprio(p)
    \/ \E p \in UserTasks : SetUserNice(p)

SpecCurr == InitCurr /\ [][NextCurr]_vars

\* C38: a task other than an idle task is rq->curr of at most one cpu, and the task a cpu
\* runs is marked on a cpu and is not on the queue.
C38_OneCurr ==
    \A c \in CPUs :
        rq[c].curr \in UserTasks
           => /\ \A o \in CPUs \ {c} : rq[o].curr # rq[c].curr
              /\ task[rq[c].curr].oncpu
              /\ ~task_queued(World, rq[c].curr)

\* a task that started on cpu 0 is now the current task of the last cpu, after a change of
\* its affinity, while cpu 0 runs another task
C38_Witness ==
    /\ rq[NCPU - 1].curr = NCPU
    /\ rq[0].curr \in UserTasks
    /\ task[NCPU].cpus_allowed = {NCPU - 1}

(***************************************************************************)
(* The rq's copies of its current task's fields when schedule() returns.   *)
(***************************************************************************)
\* the fields of task p that set_rq_task() copies to the rq
TaskProjection(p) == <<task[p].time_slice, task[p].deadline, task[p].prio, task[p].policy>>

\* C39: after a schedule() on cpu c that leaves a task other than the idle task current,
\* rq_time_slice, rq_deadline, rq_prio and rq_policy of c equal time_slice, deadline, prio
\* and policy of that task.
C39_ProjectionFresh ==
    (last.op = "schedule" /\ rq[last.cpu].curr \in UserTasks)
        => Projection(rq[last.cpu]) = TaskProjection(rq[last.cpu].curr)

(***************************************************************************)
(* schedule() one lock call at a time.  grq_lock_irq() is taken at the top *)
(* of a pass; the pass ends on one of three paths, each with its own       *)
(* unlock: prev is run again because nothing is queued, the task picked is *)
(* prev, or a context switch whose lock is released by prepare_lock_switch *)
(* or finish_lock_switch, whichever the architecture's build has.          *)
(***************************************************************************)
\* the build without __ARCH_WANT_UNLOCKED_CTXSW holds grq.lock across switch_to()
prepare_lock_switch(unlocked_ctxsw) ==
    IF unlocked_ctxsw THEN <<Unlock("grq.lock")>> ELSE <<>>

\* the lock is still held when the next task runs
finish_lock_switchNone(unlocked_ctxsw) == <<>>

finish_lock_switch(unlocked_ctxsw) ==
    IF unlocked_ctxsw THEN <<>> ELSE <<Unlock("grq.lock")>>

\* prepare_task_switch(), switch_to(), finish_task_switch()
context_switch_locks(unlocked_ctxsw) ==
    prepare_lock_switch(unlocked_ctxsw) \o finish_lock_switch(unlocked_ctxsw)

\* the path a pass of schedule() on cpu took from world w to world v: a rerun of prev leaves
\* nothing queued, and a prev that was returned to the queue and picked again won against
\* a task that is still queued
schedule_path(w, v, cpu) ==
    LET prev == w.rq[cpu].curr
    IN  IF v.rq[cpu].curr # prev THEN "switch"
        ELSE IF prev # idle_of(cpu) /\ queued_notrunning(v) = 0 THEN "rerun"
        ELSE "same"

\* what schedule() has left to do once the task to run is known
schedule_unlocks(path, unlocked_ctxsw) ==
    (IF path = "switch" THEN context_switch_locks(unlocked_ctxsw)
     ELSE <<Unlock("grq.lock")>>) \o <<[a |-> "return", l |-> path]>>

schedule_entry == <<Lock("grq.lock"), [a |-> "schedule", l |-> "grq.lock"]>>

\* cpu c is in a pass of schedule() past the choice of the task to run
PathTaken(c) ==
    /\ locks[c].todo # <<>>
    /\ Head(locks[c].todo).a \in {"unlock", "return"}

\* the task of cpu c calls schedule(), or the cpu's idle task was flagged
ScheduleEnter(c) ==
    /\ locks[c].todo = <<>>
    /\ Executing(c)
    /\ rq[c].curr = idle_of(c) => task[idle_of(c)].need_resched
    /\ locks' = [locks EXCEPT ![c].todo = schedule_entry]
    /\ UNCHANGED <<grq, task, rq, cpu_online_map, budget, last, call, completion>>

\* schedule() between grq_lock_irq() and the unlock of its path
ScheduleLocked(c) ==
    /\ locks[c].todo # <<>>
    /\ Head(locks[c].todo).a = "schedule"
    /\ \E preempt_active \in (IF task[rq[c].curr].state \in {TASK_INTERRUPTIBLE, TASK_UNINTERRUPTIBLE}
                              THEN BOOLEAN ELSE {FALSE}),
          sig \in Sigs(rq[c].curr), rd \in ClockReads, unlocked_ctxsw \in BOOLEAN :
          LET w == schedule(World, c, preempt_active, sig, rd, 0, TRUE)
          IN  /\ grq' = w.grq
              /\ task' = w.task
              /\ rq' = w.rq
              /\ locks' = [locks EXCEPT ![c].todo =
                               schedule_unlocks(schedule_path(World, w, c), unlocked_ctxsw)]
              /\ last' = [op |-> "schedule", cpu |-> c, p |-> rq[c].curr]
    /\ UNCHANGED <<cpu_online_map, budget, call, completion>>

\* preempt_enable_no_resched() and the return
ScheduleReturn(c) ==
    /\ locks[c].todo # <<>>
    /\ Head(locks[c].todo).a = "return"
    /\ locks' = [locks EXCEPT ![c].todo = Tail(@)]
    /\ UNCHANGED <<grq, task, rq, cpu_online_map, budget, last, call, completion>>

\* try_to_wake_up() runs under grq.lock: between the passes that hold it
WakeUnlocked(p) ==
    /\ \A c \in CPUs : "grq.lock" \notin HeldBy(c)
    /\ TryToWakeUp(p)

\* the task of a cpu that is not in schedule() sets its state
SleepOutside(c) ==
    /\ locks[c].todo = <<>>
    /\ budget.admin > 0
    /\ Executing(c)
    /\ rq[c].curr \in LiveTasks
    /\ task[rq[c].curr].state = TASK_RUNNING
    /\ \E s \in SleepStates :
          Commit([World EXCEPT !.task[rq[c].curr].state = s], "set_current_state", c, rq[c].curr)
    /\ budget' = [budget EXCEPT !.admin = @ - 1]

InitDispatch ==
    \E dl \in [CPUs -> RunDeadlines], c \in CPUs :
        Start(BusyBoot(OtherCpuLocality, dl, EarlySleeper(c)),
              [ticks |-> 0, forks |-> 0, admin |-> MaxSleeps, niffy |-> 0])

NextDispatch ==
    \/ \E c \in CPUs : ScheduleEnter(c)
    \/ \E c \in CPUs : AcquireLock(c)
    \/ \E c \in CPUs : ScheduleLocked(c)
    \/ \E c \in CPUs : ReleaseLock(c)
    \/ \E c \in CPUs : ScheduleReturn(c)
    \/ \E p \in UserTasks : WakeUnlocked(p)
    \/ \E c \in CPUs : SleepOutside(c)

SpecDispatch == InitDispatch /\ [][NextDispatch]_vars

\* the unlock calls of grq.lock cpu c has left to make
UnlocksLeft(c) ==
    Cardinality({i \in 1 .. Len(locks[c].todo) : locks[c].todo[i] = Unlock("grq.lock")})

\* C40: a cpu in a pass of schedule() that still holds grq.lock once its path is taken
\* (prev run again, prev picked again, context switch) has exactly one unlock of it left
\* on that path and a cpu that has released it has none left; a cpu at the return of
\* schedule() and a cpu outside schedule() hold nothing.
C40_UnlockOnce ==
    \A c \in CPUs :
        /\ PathTaken(c) => UnlocksLeft(c) = (IF "grq.lock" \in HeldBy(c) THEN 1 ELSE 0)
        /\ (locks[c].todo = <<>> \/ Head(locks[c].todo).a = "return") => locks[c].held = <<>>

AtReturn(c, path) ==
    /\ locks[c].todo = <<[a |-> "return", l |-> path]>>
    /\ locks[c].held = <<>>

\* cpu 0 is at the return of a pass that switched tasks while the last cpu is at the return
\* of a pass that ran its task again
C40_Witness == AtReturn(0, "switch") /\ AtReturn(NCPU - 1, "rerun")

====
